---- MODULE Spec2Model ----
(***************************************************************************)
(* Validation engine of Data Alchemist (runValidations and its twelve      *)
(* checks), modelled as a state machine: one action per awaited check,     *)
(* the findings list `errors` growing check by check.                      *)
(*                                                                         *)
(* Encoding of JavaScript values:                                          *)
(*   - an object is a record; a field that is undefined is not in the    *)
(*     record's domain;                                                    *)
(*   - NaN is a number outside the range of the modelled numbers, and      *)
(*     every comparison and sum goes through Lt/Gt/Add, which give NaN     *)
(*     its JavaScript meaning;                                             *)
(*   - a finding id, message and entityId are built by string              *)
(*     concatenation exactly as the template literals build them.          *)
(***************************************************************************)
EXTENDS Integers, Sequences, FiniteSets, TLC

VARIABLES clientsData, workersData, tasksData, businessRules,
          errors, origin, pc, results, budget, snapshot,
          forked,
          isValidating, validationProgress, progressInterval, handle

\* clientsData .. businessRules : the arguments of runValidations
\* errors   : the findings list of the running call
\* origin   : history variable, origin[i] is the check that pushed errors[i]
\* pc       : the check the running call is about to await, or "idle"
\* results  : the outcomes of the calls so far, [ok, findings, origin]
\* budget   : the number of calls the caller will still make
\* snapshot : history variable, the arguments as first handed over
\* forked   : the checks run as concurrent processes, each with a list of
\*            its own: [state, list, shuffled]
\* isValidating, validationProgress : the state of ValidationPanel
\* progressInterval : the runs of handleValidation whose interval is set
\* handle   : where each run of handleValidation stands
vars == <<clientsData, workersData, tasksData, businessRules,
          errors, origin, pc, results, budget, snapshot,
          forked, isValidating, validationProgress, progressInterval, handle>>

inputs == <<clientsData, workersData, tasksData, businessRules>>

panel == <<isValidating, validationProgress, progressInterval, handle>>

(***************************************************************************)
(* Bounds of the model.                                                    *)
(***************************************************************************)
MaxCalls == 2
MaxPool == 2
MaxPartial == 2
MaxDup == 3
MaxReq == 2
MaxRules == 3
MaxPhase == 3
MaxSlots == 2
MaxCrew == 2
MaxSkills == 2
MaxJson == 2
MaxKeyed == 2
MaxRuns == 2

SeqsUpTo(S, n) == UNION {[1..k -> S] : k \in 0..n}

(***************************************************************************)
(* JavaScript values.                                                      *)
(***************************************************************************)
NaN == -9999


\* A list cell split at its commas yields strings, not numbers, under the
\* type number[]: Numeral(n) is the string of the numeral n >= 0, a value
\* different from the number n
Numeral(n) == 1000 + n
IsText(x) == x >= Numeral(0)

\* The number a string operand of < or > is converted to
ToNumber(x) == IF IsText(x) THEN x - Numeral(0) ELSE x

Lt(a, b) == a # NaN /\ b # NaN /\ ToNumber(a) < ToNumber(b)
Gt(a, b) == a # NaN /\ b # NaN /\ ToNumber(a) > ToNumber(b)
Add(a, b) == IF a = NaN \/ b = NaN THEN NaN ELSE a + b
NumStr(n) == IF n = NaN THEN "NaN" ELSE ToString(ToNumber(n))

StrFields == {"ClientID", "ClientName", "WorkerID", "WorkerName", "TaskID", "TaskName"}
NumFields == {"PriorityLevel", "MaxLoadPerPhase", "Duration", "MaxConcurrent"}
ListFields == {"RequestedTaskIDs", "Skills", "AvailableSlots", "RequiredSkills",
               "PreferredPhases"}

Has(r, f) == f \in DOMAIN r

\* !r[f]
Falsy(r, f) ==
    \/ ~Has(r, f)
    \/ f \in StrFields /\ r[f] = ""
    \/ f \in NumFields /\ r[f] \in {0, NaN}

\* Array.isArray(r[f]) && r[f].length === 0
EmptyArray(r, f) == Has(r, f) /\ f \in ListFields /\ Len(r[f]) = 0

\* `${r[f]}` for a string field
Str(r, f) == IF Has(r, f) THEN r[f] ELSE "undefined"

\* r[f] for a number field: undefined behaves as NaN in every comparison and sum
Num(r, f) == IF Has(r, f) THEN r[f] ELSE NaN

\* r[f] || alt
OrElse(r, f, alt) == IF Falsy(r, f) THEN alt ELSE r[f]

\* Sequence helpers
Concat(ss) ==
    LET f[i \in 0..Len(ss)] == IF i = 0 THEN <<>> ELSE f[i - 1] \o ss[i]
    IN f[Len(ss)]

Range(s) == {s[i] : i \in 1..Len(s)}

\* arr.indexOf(x), 1-based; 0 when x is not in arr
IndexOf(s, x) ==
    IF x \in Range(s) THEN CHOOSE i \in 1..Len(s) : s[i] = x /\ \A j \in 1..(i - 1) : s[j] # x
    ELSE 0

\* arr.join(", ")
Join(s) ==
    LET f[i \in 0..Len(s)] ==
            IF i = 0 THEN ""
            ELSE IF i = 1 THEN s[1]
            ELSE f[i - 1] \o ", " \o s[i]
    IN f[Len(s)]

\* [...new Set(arr)]: first occurrences, in order
Unique(s) ==
    LET idx == SelectSeq([i \in 1..Len(s) |-> i], LAMBDA i : IndexOf(s, s[i]) = i)
    IN [k \in 1..Len(idx) |-> s[idx[k]]]

\* `${r[f]}` for a number field
NumTpl(r, f) == IF Has(r, f) THEN NumStr(r[f]) ELSE "undefined"

(***************************************************************************)
(* 1. validateRequiredFields                                               *)
(***************************************************************************)
requiredClientFields == <<"ClientID", "ClientName", "PriorityLevel">>
requiredWorkerFields == <<"WorkerID", "WorkerName", "Skills", "AvailableSlots", "MaxLoadPerPhase">>
requiredTaskFields == <<"TaskID", "TaskName", "Duration", "RequiredSkills">>

MissingClientField(client, field) ==
    IF Falsy(client, field)
    THEN << [id |-> "client-" \o OrElse(client, "ClientID", "unknown") \o "-missing-" \o field,
             type |-> "error",
             entity |-> "clients",
             entityId |-> OrElse(client, "ClientID", "Unknown"),
             field |-> field,
             message |-> "Required field \"" \o field \o "\" is missing",
             suggestion |-> "Add a value for " \o field] >>
    ELSE <<>>

MissingWorkerField(worker, field) ==
    IF Falsy(worker, field) \/ EmptyArray(worker, field)
    THEN << [id |-> "worker-" \o OrElse(worker, "WorkerID", "unknown") \o "-missing-" \o field,
             type |-> "error",
             entity |-> "workers",
             entityId |-> OrElse(worker, "WorkerID", "Unknown"),
             field |-> field,
             message |-> "Required field \"" \o field \o "\" is missing or empty",
             suggestion |-> "Add a value for " \o field] >>
    ELSE <<>>

MissingTaskField(task, field) ==
    IF Falsy(task, field) \/ EmptyArray(task, field)
    THEN << [id |-> "task-" \o OrElse(task, "TaskID", "unknown") \o "-missing-" \o field,
             type |-> "error",
             entity |-> "tasks",
             entityId |-> OrElse(task, "TaskID", "Unknown"),
             field |-> field,
             message |-> "Required field \"" \o field \o "\" is missing or empty",
             suggestion |-> "Add a value for " \o field] >>
    ELSE <<>>

RequiredFieldsFindings(clients, workers, tasks) ==
    Concat([i \in 1..Len(clients) |->
              Concat([k \in 1..Len(requiredClientFields) |->
                        MissingClientField(clients[i], requiredClientFields[k])])])
    \o Concat([i \in 1..Len(workers) |->
              Concat([k \in 1..Len(requiredWorkerFields) |->
                        MissingWorkerField(workers[i], requiredWorkerFields[k])])])
    \o Concat([i \in 1..Len(tasks) |->
              Concat([k \in 1..Len(requiredTaskFields) |->
                        MissingTaskField(tasks[i], requiredTaskFields[k])])])

(***************************************************************************)
(* 2. validateDuplicateIds                                                 *)
(***************************************************************************)
\* arr.map((r) => r[key]).filter((id) => id)
TruthyIds(recs, key) ==
    LET kept == SelectSeq([i \in 1..Len(recs) |-> i], LAMBDA i : ~Falsy(recs[i], key))
    IN [k \in 1..Len(kept) |-> recs[kept[k]][key]]

\* ids.filter((id, index) => ids.indexOf(id) !== index)
DuplicateIds(ids) ==
    LET dup == SelectSeq([i \in 1..Len(ids) |-> i], LAMBDA i : IndexOf(ids, ids[i]) # i)
    IN [k \in 1..Len(dup) |-> ids[dup[k]]]

DuplicateFinding(kind, entity, label, duplicateId) ==
    [id |-> "duplicate-" \o kind \o "-" \o duplicateId,
     type |-> "error",
     entity |-> entity,
     entityId |-> duplicateId,
     message |-> "Duplicate " \o label \o " ID: " \o duplicateId,
     suggestion |-> "Ensure all " \o label \o " IDs are unique"]

\* Mutant of DuplicateFindingsOf: one finding per duplicate record (no Set)
DuplicateFindingsOf_PerRecord(recs, key, kind, entity, label) ==
    LET dups == DuplicateIds(TruthyIds(recs, key))
    IN [k \in 1..Len(dups) |-> DuplicateFinding(kind, entity, label, dups[k])]

DuplicateFindingsOf(recs, key, kind, entity, label) ==
    LET dups == Unique(DuplicateIds(TruthyIds(recs, key)))
    IN [k \in 1..Len(dups) |-> DuplicateFinding(kind, entity, label, dups[k])]

DuplicateIdsFindings(clients, workers, tasks) ==
    DuplicateFindingsOf(clients, "ClientID", "client", "clients", "Client")
    \o DuplicateFindingsOf(workers, "WorkerID", "worker", "workers", "Worker")
    \o DuplicateFindingsOf(tasks, "TaskID", "task", "tasks", "Task")

(***************************************************************************)
(* 3. validateMalformedLists                                               *)
(***************************************************************************)
\* typeof x !== "number" || isNaN(x): the modelled list elements are numbers or NaN
NotNumeric(x) == IsText(x) \/ x = NaN

\* recs[i][f].some(...) on an undefined list is a TypeError
ReadsAbsent(recs, f) == \E i \in 1..Len(recs) : ~Has(recs[i], f)

MalformedListsThrows(workers, tasks) ==
    ReadsAbsent(workers, "AvailableSlots") \/ ReadsAbsent(tasks, "PreferredPhases")

MalformedSlots(worker) ==
    IF \E k \in 1..Len(worker.AvailableSlots) : NotNumeric(worker.AvailableSlots[k])
    THEN << [id |-> "worker-" \o Str(worker, "WorkerID") \o "-malformed-slots",
             type |-> "error",
             entity |-> "workers",
             entityId |-> Str(worker, "WorkerID"),
             field |-> "AvailableSlots",
             message |-> "Available slots must contain only numeric values",
             suggestion |-> "Ensure all slot values are valid numbers"] >>
    ELSE <<>>

MalformedPhases(task) ==
    IF \E k \in 1..Len(task.PreferredPhases) : NotNumeric(task.PreferredPhases[k])
    THEN << [id |-> "task-" \o Str(task, "TaskID") \o "-malformed-phases",
             type |-> "error",
             entity |-> "tasks",
             entityId |-> Str(task, "TaskID"),
             field |-> "PreferredPhases",
             message |-> "Preferred phases must contain only numeric values",
             suggestion |-> "Ensure all phase values are valid numbers"] >>
    ELSE <<>>

MalformedListsFindings(workers, tasks) ==
    Concat([i \in 1..Len(workers) |-> MalformedSlots(workers[i])])
    \o Concat([i \in 1..Len(tasks) |-> MalformedPhases(tasks[i])])

(***************************************************************************)
(* 4. validateRangeValues                                                  *)
(***************************************************************************)
RangeValuesThrows(workers) == ReadsAbsent(workers, "AvailableSlots")

InvalidPriority(client) ==
    IF Lt(Num(client, "PriorityLevel"), 1) \/ Gt(Num(client, "PriorityLevel"), 5)
    THEN << [id |-> "client-" \o Str(client, "ClientID") \o "-invalid-priority",
             type |-> "error",
             entity |-> "clients",
             entityId |-> Str(client, "ClientID"),
             field |-> "PriorityLevel",
             message |-> "Priority level must be between 1-5, got "
                         \o NumTpl(client, "PriorityLevel"),
             suggestion |-> "Set priority level to a value between 1 (lowest) and 5 (highest)"] >>
    ELSE <<>>

InvalidDuration(task) ==
    IF Lt(Num(task, "Duration"), 1)
    THEN << [id |-> "task-" \o Str(task, "TaskID") \o "-invalid-duration",
             type |-> "error",
             entity |-> "tasks",
             entityId |-> Str(task, "TaskID"),
             field |-> "Duration",
             message |-> "Duration must be at least 1, got " \o NumTpl(task, "Duration"),
             suggestion |-> "Set duration to a positive number of phases"] >>
    ELSE <<>>

InvalidConcurrent(task) ==
    IF Lt(Num(task, "MaxConcurrent"), 1)
    THEN << [id |-> "task-" \o Str(task, "TaskID") \o "-invalid-concurrent",
             type |-> "error",
             entity |-> "tasks",
             entityId |-> Str(task, "TaskID"),
             field |-> "MaxConcurrent",
             message |-> "Max concurrent must be at least 1",
             suggestion |-> "Set a positive number for maximum parallel assignments"] >>
    ELSE <<>>

InvalidLoad(worker) ==
    IF Lt(Num(worker, "MaxLoadPerPhase"), 1)
    THEN << [id |-> "worker-" \o Str(worker, "WorkerID") \o "-invalid-load",
             type |-> "error",
             entity |-> "workers",
             entityId |-> Str(worker, "WorkerID"),
             field |-> "MaxLoadPerPhase",
             message |-> "Max load per phase must be at least 1",
             suggestion |-> "Set a positive number for maximum workload capacity"] >>
    ELSE <<>>

InvalidSlots(worker) ==
    IF \E k \in 1..Len(worker.AvailableSlots) : Lt(worker.AvailableSlots[k], 1)
    THEN << [id |-> "worker-" \o Str(worker, "WorkerID") \o "-invalid-slots",
             type |-> "error",
             entity |-> "workers",
             entityId |-> Str(worker, "WorkerID"),
             field |-> "AvailableSlots",
             message |-> "Available slots must be positive numbers",
             suggestion |-> "Ensure all phase numbers are 1 or greater"] >>
    ELSE <<>>

RangeValuesFindings(clients, workers, tasks) ==
    Concat([i \in 1..Len(clients) |-> InvalidPriority(clients[i])])
    \o Concat([i \in 1..Len(tasks) |-> InvalidDuration(tasks[i]) \o InvalidConcurrent(tasks[i])])
    \o Concat([i \in 1..Len(workers) |-> InvalidLoad(workers[i]) \o InvalidSlots(workers[i])])

(***************************************************************************)
(* 5. validateJSONFields                                                   *)
(* AttributesJSON is [isString, text]: an object (isString = FALSE) or a   *)
(* string, held as its sequence of characters.                             *)
(***************************************************************************)
RECURSIVE ParseValue(_, _), ParseElements(_, _)

\* The index after the JSON value that starts at s[i]; 0 when there is none.
\* Grammar: value ::= "1" | "{" "}" | "[" "]" | "[" value { "," value } "]"
ParseValue(s, i) ==
    IF i > Len(s) THEN 0
    ELSE IF s[i] = "1" THEN i + 1
    ELSE IF s[i] = "{" THEN (IF i + 1 <= Len(s) /\ s[i + 1] = "}" THEN i + 2 ELSE 0)
    ELSE IF s[i] = "[" THEN (IF i + 1 <= Len(s) /\ s[i + 1] = "]" THEN i + 2
                             ELSE ParseElements(s, i + 1))
    ELSE 0

ParseElements(s, i) ==
    LET j == ParseValue(s, i)
    IN IF j = 0 \/ j > Len(s) THEN 0
       ELSE IF s[j] = "]" THEN j + 1
       ELSE IF s[j] = "," THEN ParseElements(s, j + 1)
       ELSE 0

\* JSON.parse(text) throws a SyntaxError
JSONParseThrows(text) == ParseValue(text, 1) # Len(text) + 1

\* client.AttributesJSON && typeof client.AttributesJSON === "string"
IsNonEmptyString(client) ==
    /\ Has(client, "AttributesJSON")
    /\ client.AttributesJSON.isString
    /\ client.AttributesJSON.text # <<>>

BrokenJSON(client) ==
    IF IsNonEmptyString(client) /\ JSONParseThrows(client.AttributesJSON.text)
    THEN << [id |-> "client-" \o Str(client, "ClientID") \o "-broken-json",
             type |-> "error",
             entity |-> "clients",
             entityId |-> Str(client, "ClientID"),
             field |-> "AttributesJSON",
             message |-> "Invalid JSON format in AttributesJSON field",
             suggestion |-> "Fix the JSON syntax or use the object format"] >>
    ELSE <<>>

JSONFieldsFindings(clients) == Concat([i \in 1..Len(clients) |-> BrokenJSON(clients[i])])

(***************************************************************************)
(* 6. validateReferences                                                   *)
(***************************************************************************)
ReferencesThrows(clients) == ReadsAbsent(clients, "RequestedTaskIDs")

\* new Set(tasksData.map((t) => t.TaskID)); an undefined TaskID equals no string
TaskIdSet(tasks) == {tasks[i].TaskID : i \in {j \in 1..Len(tasks) : Has(tasks[j], "TaskID")}}

UnknownTask(client, taskId, taskIds) ==
    IF taskId \notin taskIds
    THEN << [id |-> "client-" \o Str(client, "ClientID") \o "-unknown-task-" \o taskId,
             type |-> "error",
             entity |-> "clients",
             entityId |-> Str(client, "ClientID"),
             field |-> "RequestedTaskIDs",
             message |-> "Requested task \"" \o taskId \o "\" does not exist",
             suggestion |-> "Remove this task ID or add the corresponding task to the tasks data"] >>
    ELSE <<>>

\* Mutant of ReferencesFindings: each client's list is deduplicated first
ReferencesFindings_Dedup(clients, tasks) ==
    LET taskIds == TaskIdSet(tasks)
    IN Concat([i \in 1..Len(clients) |->
                 Concat([k \in 1..Len(Unique(clients[i].RequestedTaskIDs)) |->
                           UnknownTask(clients[i], Unique(clients[i].RequestedTaskIDs)[k],
                                       taskIds)])])

ReferencesFindings(clients, tasks) ==
    LET taskIds == TaskIdSet(tasks)
    IN Concat([i \in 1..Len(clients) |->
                 Concat([k \in 1..Len(clients[i].RequestedTaskIDs) |->
                           UnknownTask(clients[i], clients[i].RequestedTaskIDs[k], taskIds)])])

(***************************************************************************)
(* 7. validateCircularCoRuns                                               *)
(* A rule is [id, type, name, active, parameters]; parameters carries      *)
(* tasks (co-run) or taskId and allowedPhases (phase window).              *)
(***************************************************************************)
\* Mutant of RulesOfType: rules that are switched off are left out
RulesOfType_ActiveOnly(rules, t) == SelectSeq(rules, LAMBDA rule : rule.type = t /\ rule.active)

\* businessRules.filter((rule) => rule.type === t)
RulesOfType(rules, t) == SelectSeq(rules, LAMBDA rule : rule.type = t)

\* rule.parameters.tasks || []
ParamTasks(rule) == IF Has(rule.parameters, "tasks") THEN rule.parameters.tasks ELSE <<>>

\* Mutant of RelatedRules: the rule being scanned is not excluded
RelatedRules_Self(coRunRules, rule, taskId) ==
    SelectSeq(coRunRules, LAMBDA r : /\ Has(r.parameters, "tasks")
                                     /\ taskId \in Range(r.parameters.tasks))

\* coRunRules.filter((r) => r.id !== rule.id && r.parameters.tasks?.includes(taskId))
RelatedRules(coRunRules, rule, taskId) ==
    SelectSeq(coRunRules, LAMBDA r : /\ r.id # rule.id
                                     /\ Has(r.parameters, "tasks")
                                     /\ taskId \in Range(r.parameters.tasks))

\* const visited = new Set(); const recursionStack = new Set(): the state of
\* the closure hasCycle of one rule; `entered` lists the tasks in the order
\* hasCycle got past its two tests for them
FreshSets == [visited |-> {}, recursionStack |-> {}, result |-> FALSE, entered |-> <<>>]

\* Mutant of Enter: the task is not added to visited
Enter_NoVisited(st, taskId) ==
    [st EXCEPT !.recursionStack = @ \cup {taskId},
               !.result = FALSE,
               !.entered = Append(@, taskId)]

\* visited.add(taskId); recursionStack.add(taskId)
Enter(st, taskId) ==
    [st EXCEPT !.visited = @ \cup {taskId},
               !.recursionStack = @ \cup {taskId},
               !.result = FALSE,
               !.entered = Append(@, taskId)]

RECURSIVE HasCycle(_, _, _, _), ScanRelated(_, _, _, _, _, _)

\* Mutant of HasCycle: the recursion stack is not consulted
HasCycle_NoStack(taskId, rule, coRunRules, st) ==
    IF taskId \in st.visited THEN [st EXCEPT !.result = FALSE]
    ELSE LET relatedRules == RelatedRules(coRunRules, rule, taskId)
             relatedTasks == Concat([k \in 1..Len(relatedRules) |-> ParamTasks(relatedRules[k])])
         IN ScanRelated(relatedTasks, 1, taskId, rule, coRunRules, Enter(st, taskId))

RECURSIVE ScanRelated_NoSkip(_, _, _, _, _, _)

\* Mutant of ScanRelated: the task itself is not skipped among the tasks of
\* a related rule
ScanRelated_NoSkip(relatedTasks, i, taskId, rule, coRunRules, st) ==
    IF i > Len(relatedTasks)
    THEN [st EXCEPT !.recursionStack = @ \ {taskId}, !.result = FALSE]
    ELSE LET after == HasCycle(relatedTasks[i], rule, coRunRules, st)
         IN IF after.result THEN after
            ELSE ScanRelated_NoSkip(relatedTasks, i + 1, taskId, rule, coRunRules, after)

\* hasCycle(taskId) of the closure of `rule`; st = [visited, recursionStack, result]
\* is the closure's state before the call, the value its state after it and
\* the value returned.
HasCycle(taskId, rule, coRunRules, st) ==
    IF taskId \in st.recursionStack THEN [st EXCEPT !.result = TRUE]
    ELSE IF taskId \in st.visited THEN [st EXCEPT !.result = FALSE]
    ELSE LET relatedRules == RelatedRules(coRunRules, rule, taskId)
             relatedTasks == Concat([k \in 1..Len(relatedRules) |-> ParamTasks(relatedRules[k])])
         IN ScanRelated(relatedTasks, 1, taskId, rule, coRunRules, Enter(st, taskId))

\* The two nested loops over relatedRules and their tasks, from the i-th
\* related task on.
ScanRelated(relatedTasks, i, taskId, rule, coRunRules, st) ==
    IF i > Len(relatedTasks)
    THEN [st EXCEPT !.recursionStack = @ \ {taskId}, !.result = FALSE]
    ELSE IF relatedTasks[i] # taskId
         THEN LET after == HasCycle(relatedTasks[i], rule, coRunRules, st)
              IN IF after.result THEN after
                 ELSE ScanRelated(relatedTasks, i + 1, taskId, rule, coRunRules, after)
         ELSE ScanRelated(relatedTasks, i + 1, taskId, rule, coRunRules, st)

RECURSIVE FirstCyclic(_, _, _, _, _)

\* for (const taskId of tasks) { if (hasCycle(taskId)) { ...; break } }:
\* hit is the index of the task the finding is pushed for, 0 when none is;
\* st the closure's state when the loop is left.
FirstCyclic(tasks, i, rule, coRunRules, st) ==
    IF i > Len(tasks) THEN [hit |-> 0, st |-> st]
    ELSE LET after == HasCycle(tasks[i], rule, coRunRules, st)
         IN IF after.result THEN [hit |-> i, st |-> after]
            ELSE FirstCyclic(tasks, i + 1, rule, coRunRules, after)

RECURSIVE AllCyclic(_, _, _, _, _)

\* The loop over the rule's tasks without its break: the indices of all the
\* tasks for which hasCycle returns true
AllCyclic(tasks, i, rule, coRunRules, st) ==
    IF i > Len(tasks) THEN <<>>
    ELSE LET after == HasCycle(tasks[i], rule, coRunRules, st)
         IN (IF after.result THEN <<i>> ELSE <<>>)
            \o AllCyclic(tasks, i + 1, rule, coRunRules, after)

\* Mutant of CircularFinding: a finding for every task with a cycle
CircularFinding_NoBreak(rule, coRunRules) ==
    LET tasks == ParamTasks(rule)
        hits == AllCyclic(tasks, 1, rule, coRunRules, FreshSets)
    IN [h \in 1..Len(hits) |->
          [id |-> "circular-corun-" \o rule.id,
           type |-> "error",
           entity |-> "tasks",
           entityId |-> tasks[hits[h]],
           message |-> "Circular co-run dependency detected in rule \"" \o rule.name \o "\"",
           suggestion |-> "Remove circular dependencies between co-run task groups"]]

CircularFinding(rule, coRunRules) ==
    LET tasks == ParamTasks(rule)
        hit == FirstCyclic(tasks, 1, rule, coRunRules, FreshSets).hit
    IN IF hit # 0
       THEN << [id |-> "circular-corun-" \o rule.id,
                type |-> "error",
                entity |-> "tasks",
                entityId |-> tasks[hit],
                message |-> "Circular co-run dependency detected in rule \"" \o rule.name \o "\"",
                suggestion |-> "Remove circular dependencies between co-run task groups"] >>
       ELSE <<>>

CircularCoRunsFindings(rules) ==
    LET coRunRules == RulesOfType(rules, "coRun")
    IN Concat([k \in 1..Len(coRunRules) |-> CircularFinding(coRunRules[k], coRunRules)])

(***************************************************************************)
(* 8. validateRuleConflicts                                                *)
(* A Map is a sequence of [key, val, defined] in insertion order; `defined`*)
(* is FALSE when the stored value is undefined.                            *)
(***************************************************************************)
MapHas(m, key) == \E i \in 1..Len(m) : m[i].key = key

\* m.set(key, val): a present key keeps its place
MapSet(m, key, val, defined) ==
    IF MapHas(m, key)
    THEN [i \in 1..Len(m) |-> IF m[i].key = key
                              THEN [key |-> key, val |-> val, defined |-> defined]
                              ELSE m[i]]
    ELSE Append(m, [key |-> key, val |-> val, defined |-> defined])

\* tasksData.find((t) => t.TaskID === taskId)
FindTask(tasks, taskId) ==
    LET hits == SelectSeq(tasks, LAMBDA t : Has(t, "TaskID") /\ t.TaskID = taskId)
    IN hits

\* phaseWindowRules.find((rule) => rule.parameters.taskId === taskId)
FindPhaseRule(phaseWindowRules, taskId) ==
    SelectSeq(phaseWindowRules,
              LAMBDA rule : Has(rule.parameters, "taskId") /\ rule.parameters.taskId = taskId)

\* phaseRule.parameters.allowedPhases || []
AllowedPhases(rule) ==
    IF Has(rule.parameters, "allowedPhases") THEN rule.parameters.allowedPhases ELSE <<>>

\* Mutant of SetWindows: the phase-window rule is used only for a task that
\* is not in the collection
SetWindows_PreferenceWins(m, taskId, tasks, phaseWindowRules) ==
    LET found == FindTask(tasks, taskId)
        phaseRule == FindPhaseRule(phaseWindowRules, taskId)
    IN IF found # <<>>
       THEN IF Has(found[1], "PreferredPhases")
            THEN MapSet(m, taskId, found[1].PreferredPhases, TRUE)
            ELSE MapSet(m, taskId, <<>>, FALSE)
       ELSE IF phaseRule # <<>> THEN MapSet(m, taskId, AllowedPhases(phaseRule[1]), TRUE) ELSE m

\* The body of the loop over coRunTasks, for one task
SetWindows(m, taskId, tasks, phaseWindowRules) ==
    LET found == FindTask(tasks, taskId)
        m1 == IF found # <<>>
              THEN IF Has(found[1], "PreferredPhases")
                   THEN MapSet(m, taskId, found[1].PreferredPhases, TRUE)
                   ELSE MapSet(m, taskId, <<>>, FALSE)
              ELSE m
        phaseRule == FindPhaseRule(phaseWindowRules, taskId)
    IN IF phaseRule # <<>> THEN MapSet(m1, taskId, AllowedPhases(phaseRule[1]), TRUE) ELSE m1

TaskPhaseWindows(coRunTasks, tasks, phaseWindowRules) ==
    LET f[i \in 0..Len(coRunTasks)] ==
            IF i = 0 THEN <<>>
            ELSE SetWindows(f[i - 1], coRunTasks[i], tasks, phaseWindowRules)
    IN f[Len(coRunTasks)]

\* common.filter((phase) => phases.includes(phase))
FilterCommon(common, phases) == SelectSeq(common, LAMBDA phase : phase \in Range(phases))

\* phaseArrays.reduce(...): [common, threw]. An undefined first array throws
\* on .filter; an undefined later array throws on .includes, which runs only
\* when common still has an element.
ReduceCommon(phaseArrays) ==
    LET f[i \in 1..Len(phaseArrays)] ==
            IF i = 1
            THEN [common |-> phaseArrays[1].val, threw |-> ~phaseArrays[1].defined]
            ELSE IF f[i - 1].threw THEN f[i - 1]
            ELSE IF ~phaseArrays[i].defined
                 THEN [common |-> <<>>, threw |-> f[i - 1].common # <<>>]
            ELSE [common |-> FilterCommon(f[i - 1].common, phaseArrays[i].val), threw |-> FALSE]
    IN f[Len(phaseArrays)]

ConflictFinding(coRunRule, tasks, phaseWindowRules) ==
    LET coRunTasks == ParamTasks(coRunRule)
        phaseArrays == TaskPhaseWindows(coRunTasks, tasks, phaseWindowRules)
    IN IF Len(phaseArrays) > 1 /\ ReduceCommon(phaseArrays).common = <<>>
       THEN << [id |-> "conflicting-phases-" \o coRunRule.id,
                type |-> "error",
                entity |-> "tasks",
                entityId |-> Join(coRunTasks),
                message |-> "Co-run tasks have no overlapping phase windows: " \o Join(coRunTasks),
                suggestion |-> "Adjust phase windows to allow co-run tasks to execute in the same phases"] >>
       ELSE <<>>

RuleConflictsThrows(rules, tasks) ==
    LET phaseWindowRules == RulesOfType(rules, "phaseWindow")
        coRunRules == RulesOfType(rules, "coRun")
    IN \E k \in 1..Len(coRunRules) :
          LET phaseArrays == TaskPhaseWindows(ParamTasks(coRunRules[k]), tasks, phaseWindowRules)
          IN Len(phaseArrays) > 1 /\ ReduceCommon(phaseArrays).threw

RuleConflictsFindings(rules, tasks) ==
    LET phaseWindowRules == RulesOfType(rules, "phaseWindow")
        coRunRules == RulesOfType(rules, "coRun")
    IN Concat([k \in 1..Len(coRunRules) |->
                 ConflictFinding(coRunRules[k], tasks, phaseWindowRules)])

(***************************************************************************)
(* 9. validateWorkerOverload                                               *)
(***************************************************************************)
WorkerOverloadThrows(workers) == ReadsAbsent(workers, "AvailableSlots")

\* Mutant of Overloaded: a slot count equal to the load is flagged too
Overloaded_OrEqual(worker) ==
    IF ~Gt(Len(worker.AvailableSlots), Num(worker, "MaxLoadPerPhase"))
    THEN << [id |-> "worker-" \o Str(worker, "WorkerID") \o "-overloaded",
             type |-> "warning",
             entity |-> "workers",
             entityId |-> Str(worker, "WorkerID"),
             message |-> "Worker has fewer available slots ("
                         \o ToString(Len(worker.AvailableSlots))
                         \o ") than max load capacity ("
                         \o NumTpl(worker, "MaxLoadPerPhase") \o ")",
             suggestion |-> "Consider increasing available slots or reducing max load per phase"] >>
    ELSE <<>>

\* Mutant of Overloaded: the finding is pushed as an error
Overloaded_AsError(worker) ==
    IF Lt(Len(worker.AvailableSlots), Num(worker, "MaxLoadPerPhase"))
    THEN << [id |-> "worker-" \o Str(worker, "WorkerID") \o "-overloaded",
             type |-> "error",
             entity |-> "workers",
             entityId |-> Str(worker, "WorkerID"),
             message |-> "Worker has fewer available slots ("
                         \o ToString(Len(worker.AvailableSlots))
                         \o ") than max load capacity ("
                         \o NumTpl(worker, "MaxLoadPerPhase") \o ")",
             suggestion |-> "Consider increasing available slots or reducing max load per phase"] >>
    ELSE <<>>

Overloaded(worker) ==
    IF Lt(Len(worker.AvailableSlots), Num(worker, "MaxLoadPerPhase"))
    THEN << [id |-> "worker-" \o Str(worker, "WorkerID") \o "-overloaded",
             type |-> "warning",
             entity |-> "workers",
             entityId |-> Str(worker, "WorkerID"),
             message |-> "Worker has fewer available slots ("
                         \o ToString(Len(worker.AvailableSlots))
                         \o ") than max load capacity ("
                         \o NumTpl(worker, "MaxLoadPerPhase") \o ")",
             suggestion |-> "Consider increasing available slots or reducing max load per phase"] >>
    ELSE <<>>

WorkerOverloadFindings(workers) == Concat([i \in 1..Len(workers) |-> Overloaded(workers[i])])

(***************************************************************************)
(* 10. validatePhaseSlotSaturation                                         *)
(***************************************************************************)
PhaseSlotSaturationThrows(workers, tasks) ==
    ReadsAbsent(workers, "AvailableSlots") \/ ReadsAbsent(tasks, "PreferredPhases")

\* m.get(key) || 0
GetOrZero(m, key) ==
    IF MapHas(m, key)
    THEN LET v == (CHOOSE e \in Range(m) : e.key = key).val
         IN IF v \in {0, NaN} THEN 0 ELSE v
    ELSE 0

\* Mutant of Accumulate: the amount replaces the total instead of adding to it
Accumulate_Overwrite(entries) ==
    LET f[i \in 0..Len(entries)] ==
            IF i = 0 THEN <<>>
            ELSE MapSet(f[i - 1], entries[i].phase, entries[i].amount, TRUE)
    IN f[Len(entries)]

\* for each entry in order: m.set(phase, (m.get(phase) || 0) + amount)
Accumulate(entries) ==
    LET f[i \in 0..Len(entries)] ==
            IF i = 0 THEN <<>>
            ELSE MapSet(f[i - 1], entries[i].phase,
                        Add(GetOrZero(f[i - 1], entries[i].phase), entries[i].amount), TRUE)
    IN f[Len(entries)]

PhaseSlots(workers) ==
    Accumulate(Concat([i \in 1..Len(workers) |->
                         [k \in 1..Len(workers[i].AvailableSlots) |->
                            [phase |-> workers[i].AvailableSlots[k],
                             amount |-> Num(workers[i], "MaxLoadPerPhase")]]]))

\* Mutant of PhasesOrDefault: a task without preferred phases is attributed
\* to no phase
PhasesOrDefault_Unattributed(task) == task.PreferredPhases

\* task.PreferredPhases.length > 0 ? task.PreferredPhases : [1]
PhasesOrDefault(task) == IF Len(task.PreferredPhases) > 0 THEN task.PreferredPhases ELSE <<1>>

PhaseRequirements(tasks) ==
    Accumulate(Concat([i \in 1..Len(tasks) |->
                         [k \in 1..Len(PhasesOrDefault(tasks[i])) |->
                            [phase |-> PhasesOrDefault(tasks[i])[k],
                             amount |-> Num(tasks[i], "Duration")]]]))

Saturated(phase, required, available) ==
    IF Gt(required, available)
    THEN << [id |-> "phase-saturation-" \o NumStr(phase),
             type |-> "warning",
             entity |-> "tasks",
             entityId |-> "Phase " \o NumStr(phase),
             message |-> "Phase " \o NumStr(phase) \o " is oversaturated: requires "
                         \o NumStr(required) \o " slots but only "
                         \o NumStr(available) \o " available",
             suggestion |-> "Add more workers to this phase or redistribute tasks to other phases"] >>
    ELSE <<>>

PhaseSlotSaturationFindings(workers, tasks) ==
    LET phaseSlots == PhaseSlots(workers)
        phaseRequirements == PhaseRequirements(tasks)
    IN Concat([i \in 1..Len(phaseRequirements) |->
                 Saturated(phaseRequirements[i].key, phaseRequirements[i].val,
                           GetOrZero(phaseSlots, phaseRequirements[i].key))])

(***************************************************************************)
(* 11. validateSkillCoverage                                               *)
(***************************************************************************)
SkillCoverageThrows(workers, tasks) ==
    ReadsAbsent(workers, "Skills") \/ ReadsAbsent(tasks, "RequiredSkills")

AvailableSkills(workers) ==
    UNION {Range(workers[i].Skills) : i \in 1..Len(workers)}

MissingSkill(task, skill, availableSkills) ==
    IF skill \notin availableSkills
    THEN << [id |-> "task-" \o Str(task, "TaskID") \o "-missing-skill-" \o skill,
             type |-> "warning",
             entity |-> "tasks",
             entityId |-> Str(task, "TaskID"),
             field |-> "RequiredSkills",
             message |-> "No worker has the required skill \"" \o skill \o "\"",
             suggestion |-> "Add a worker with this skill or remove it from task requirements"] >>
    ELSE <<>>

\* Mutant of SkillCoverageFindings: a skill listed twice by a task is looked
\* up once
SkillCoverageFindings_PerSkill(workers, tasks) ==
    LET availableSkills == AvailableSkills(workers)
    IN Concat([i \in 1..Len(tasks) |->
                 LET skills == Unique(tasks[i].RequiredSkills)
                 IN Concat([k \in 1..Len(skills) |->
                              MissingSkill(tasks[i], skills[k], availableSkills)])])

SkillCoverageFindings(workers, tasks) ==
    LET availableSkills == AvailableSkills(workers)
    IN Concat([i \in 1..Len(tasks) |->
                 Concat([k \in 1..Len(tasks[i].RequiredSkills) |->
                           MissingSkill(tasks[i], tasks[i].RequiredSkills[k], availableSkills)])])

(***************************************************************************)
(* 12. validateMaxConcurrencyFeasibility                                   *)
(***************************************************************************)
\* Mutant of Qualified: one required skill is enough
Qualified_Some(worker, task) ==
    \E k \in 1..Len(task.RequiredSkills) : task.RequiredSkills[k] \in Range(worker.Skills)

\* task.RequiredSkills.every((skill) => worker.Skills.includes(skill))
Qualified(worker, task) ==
    \A k \in 1..Len(task.RequiredSkills) : task.RequiredSkills[k] \in Range(worker.Skills)

QualifiedWorkers(workers, task) == SelectSeq(workers, LAMBDA worker : Qualified(worker, task))

\* worker.AvailableSlots.some((slot) => task.PreferredPhases.includes(slot))
AvailableIn(worker, task) ==
    \E k \in 1..Len(worker.AvailableSlots) :
        worker.AvailableSlots[k] \in Range(task.PreferredPhases)

\* Mutant of AvailableWorkers: the workers with a slot in the preferred
\* phases, qualified or not
AvailableWorkers_Unqualified(workers, task) ==
    SelectSeq(workers, LAMBDA worker : AvailableIn(worker, task))

\* qualifiedWorkers.filter((worker) => worker.AvailableSlots.some(...))
AvailableWorkers(workers, task) ==
    SelectSeq(QualifiedWorkers(workers, task), LAMBDA worker : AvailableIn(worker, task))

\* every() calls worker.Skills.includes only for a task with a required skill
MaxConcurrencyThrows(workers, tasks) ==
    \E i \in 1..Len(tasks) :
        \/ ~Has(tasks[i], "RequiredSkills")
        \/ Len(tasks[i].RequiredSkills) > 0 /\ ReadsAbsent(workers, "Skills")
        \/ ~Has(tasks[i], "PreferredPhases")
        \/ /\ Len(tasks[i].PreferredPhases) > 0
           /\ ReadsAbsent(QualifiedWorkers(workers, tasks[i]), "AvailableSlots")

InfeasibleConcurrency(task, qualifiedWorkers) ==
    IF Gt(Num(task, "MaxConcurrent"), Len(qualifiedWorkers))
    THEN << [id |-> "task-" \o Str(task, "TaskID") \o "-infeasible-concurrency",
             type |-> "warning",
             entity |-> "tasks",
             entityId |-> Str(task, "TaskID"),
             field |-> "MaxConcurrent",
             message |-> "Max concurrent (" \o NumTpl(task, "MaxConcurrent")
                         \o ") exceeds qualified workers ("
                         \o ToString(Len(qualifiedWorkers)) \o ")",
             suggestion |-> "Reduce max concurrent value or add more qualified workers"] >>
    ELSE <<>>

\* Mutant of InfeasiblePhaseConcurrency: no test of PreferredPhases.length
InfeasiblePhaseConcurrency_Unguarded(task, workers) ==
    IF Gt(Num(task, "MaxConcurrent"), Len(AvailableWorkers(workers, task)))
    THEN << [id |-> "task-" \o Str(task, "TaskID") \o "-infeasible-phase-concurrency",
             type |-> "warning",
             entity |-> "tasks",
             entityId |-> Str(task, "TaskID"),
             message |-> "Max concurrent (" \o NumTpl(task, "MaxConcurrent")
                         \o ") exceeds available qualified workers ("
                         \o ToString(Len(AvailableWorkers(workers, task)))
                         \o ") in preferred phases",
             suggestion |-> "Adjust preferred phases, reduce max concurrent, or add more qualified workers"] >>
    ELSE <<>>

InfeasiblePhaseConcurrency(task, workers) ==
    IF Len(task.PreferredPhases) > 0
       /\ Gt(Num(task, "MaxConcurrent"), Len(AvailableWorkers(workers, task)))
    THEN << [id |-> "task-" \o Str(task, "TaskID") \o "-infeasible-phase-concurrency",
             type |-> "warning",
             entity |-> "tasks",
             entityId |-> Str(task, "TaskID"),
             message |-> "Max concurrent (" \o NumTpl(task, "MaxConcurrent")
                         \o ") exceeds available qualified workers ("
                         \o ToString(Len(AvailableWorkers(workers, task)))
                         \o ") in preferred phases",
             suggestion |-> "Adjust preferred phases, reduce max concurrent, or add more qualified workers"] >>
    ELSE <<>>

MaxConcurrencyFindings(workers, tasks) ==
    Concat([i \in 1..Len(tasks) |->
              InfeasibleConcurrency(tasks[i], QualifiedWorkers(workers, tasks[i]))
              \o InfeasiblePhaseConcurrency(tasks[i], workers)])

(***************************************************************************)
(* runValidations: the twelve checks in the order they are awaited.        *)
(***************************************************************************)
\* Mutant of Pipeline: the checks awaited group by group (record shape,
\* identity, cross-reference, rule graph, capacity)
Pipeline_Grouped ==
    << "validateRequiredFields", "validateMalformedLists", "validateRangeValues",
       "validateJSONFields", "validateDuplicateIds", "validateReferences",
       "validateCircularCoRuns", "validateRuleConflicts", "validateWorkerOverload",
       "validatePhaseSlotSaturation", "validateSkillCoverage",
       "validateMaxConcurrencyFeasibility" >>

Pipeline ==
    << "validateRequiredFields", "validateDuplicateIds", "validateMalformedLists",
       "validateRangeValues", "validateJSONFields", "validateReferences",
       "validateCircularCoRuns", "validateRuleConflicts", "validateWorkerOverload",
       "validatePhaseSlotSaturation", "validateSkillCoverage",
       "validateMaxConcurrencyFeasibility" >>

\* What follows the check `name`: the next check, or the return statement
After(name) ==
    LET i == IndexOf(Pipeline, name)
    IN IF i < Len(Pipeline) THEN Pipeline[i + 1] ELSE "return"

\* Mutant of FreshErrors: the list outlives the call (a module-level array)
FreshErrors_Kept(previous) == previous

\* const errors: ValidationError[] = []
FreshErrors(previous) == <<>>

\* Mutant of Push: a check that looks at the list it is handed and reports
\* only when nothing was reported before it
Push_OnlyFirst(list, findings) == IF list = <<>> THEN findings ELSE list

\* errors.push(...) for each finding of a check, onto the list it is handed
Push(list, findings) == list \o findings

\* One awaited check: it appends its findings, or its exception rejects the
\* promise of the call.
Await(name, throws, findings) ==
    /\ pc = name
    /\ IF throws
       THEN /\ results' = Append(results, [ok |-> FALSE, findings |-> <<>>, origin |-> <<>>])
            /\ pc' = "idle"
            /\ UNCHANGED <<errors, origin>>
       ELSE /\ errors' = Push(errors, findings)
            /\ origin' = Push(origin, [i \in 1..Len(findings) |-> name])
            /\ pc' = After(name)
            /\ UNCHANGED results
    /\ UNCHANGED <<inputs, budget, snapshot, forked, panel>>

runValidations ==
    /\ pc = "idle"
    /\ budget > 0
    /\ budget' = budget - 1
    /\ errors' = FreshErrors(errors)
    /\ origin' = FreshErrors(origin)
    /\ pc' = Pipeline[1]
    /\ UNCHANGED <<inputs, results, snapshot, forked, panel>>

validateRequiredFields ==
    Await("validateRequiredFields", FALSE,
          RequiredFieldsFindings(clientsData, workersData, tasksData))

validateDuplicateIds ==
    Await("validateDuplicateIds", FALSE,
          DuplicateIdsFindings(clientsData, workersData, tasksData))

validateMalformedLists ==
    Await("validateMalformedLists", MalformedListsThrows(workersData, tasksData),
          MalformedListsFindings(workersData, tasksData))

validateRangeValues ==
    Await("validateRangeValues", RangeValuesThrows(workersData),
          RangeValuesFindings(clientsData, workersData, tasksData))

validateJSONFields ==
    Await("validateJSONFields", FALSE, JSONFieldsFindings(clientsData))

validateReferences ==
    Await("validateReferences", ReferencesThrows(clientsData),
          ReferencesFindings(clientsData, tasksData))

validateCircularCoRuns ==
    Await("validateCircularCoRuns", FALSE, CircularCoRunsFindings(businessRules))

\* Mutant of validateRuleConflicts: the intersection is computed in place, in
\* the array the reduction starts from, which is the PreferredPhases array of
\* the first mapped member task when no phase-window rule replaced it.
NarrowedInPlace(rules, tasks) ==
    LET phaseWindowRules == RulesOfType(rules, "phaseWindow")
        coRunRules == RulesOfType(rules, "coRun")
        Hit(i, k) ==
            LET phaseArrays == TaskPhaseWindows(ParamTasks(coRunRules[k]), tasks, phaseWindowRules)
            IN /\ Len(phaseArrays) > 1
               /\ FindPhaseRule(phaseWindowRules, phaseArrays[1].key) = <<>>
               /\ FindTask(tasks, phaseArrays[1].key)[1] = tasks[i]
        Common(k) ==
            ReduceCommon(TaskPhaseWindows(ParamTasks(coRunRules[k]), tasks, phaseWindowRules)).common
    IN [i \in 1..Len(tasks) |->
          IF \E k \in 1..Len(coRunRules) : Hit(i, k)
          THEN [tasks[i] EXCEPT !.PreferredPhases =
                    Common(CHOOSE k \in 1..Len(coRunRules) : Hit(i, k))]
          ELSE tasks[i]]

validateRuleConflicts_InPlace ==
    /\ pc = "validateRuleConflicts"
    /\ errors' = errors \o RuleConflictsFindings(businessRules, tasksData)
    /\ origin' = origin \o [i \in 1..Len(RuleConflictsFindings(businessRules, tasksData)) |->
                              "validateRuleConflicts"]
    /\ pc' = After("validateRuleConflicts")
    /\ tasksData' = NarrowedInPlace(businessRules, tasksData)
    /\ UNCHANGED <<clientsData, workersData, businessRules, results, budget, snapshot,
                   forked, panel>>

validateRuleConflicts ==
    Await("validateRuleConflicts", RuleConflictsThrows(businessRules, tasksData),
          RuleConflictsFindings(businessRules, tasksData))

validateWorkerOverload ==
    Await("validateWorkerOverload", WorkerOverloadThrows(workersData),
          WorkerOverloadFindings(workersData))

validatePhaseSlotSaturation ==
    Await("validatePhaseSlotSaturation", PhaseSlotSaturationThrows(workersData, tasksData),
          PhaseSlotSaturationFindings(workersData, tasksData))

validateSkillCoverage ==
    Await("validateSkillCoverage", SkillCoverageThrows(workersData, tasksData),
          SkillCoverageFindings(workersData, tasksData))

validateMaxConcurrencyFeasibility ==
    Await("validateMaxConcurrencyFeasibility", MaxConcurrencyThrows(workersData, tasksData),
          MaxConcurrencyFindings(workersData, tasksData))

\* return errors
Return ==
    /\ pc = "return"
    /\ results' = Append(results, [ok |-> TRUE, findings |-> errors, origin |-> origin])
    /\ pc' = "idle"
    /\ UNCHANGED <<inputs, errors, origin, budget, snapshot, forked, panel>>

Next ==
    \/ runValidations
    \/ validateRequiredFields
    \/ validateDuplicateIds
    \/ validateMalformedLists
    \/ validateRangeValues
    \/ validateJSONFields
    \/ validateReferences
    \/ validateCircularCoRuns
    \/ validateRuleConflicts
    \/ validateWorkerOverload
    \/ validatePhaseSlotSaturation
    \/ validateSkillCoverage
    \/ validateMaxConcurrencyFeasibility
    \/ Return

(***************************************************************************)
(* The twelve checks as concurrent processes: each is handed the arguments *)
(* and an empty list of its own; the lists are merged in Pipeline order    *)
(* once every process has settled. A check has no await inside, so it runs *)
(* in one step.                                                            *)
(***************************************************************************)
\* The check `name` applied to the arguments: whether it throws, and what it
\* pushes
CheckThrows(name) ==
    CASE name = "validateMalformedLists" -> MalformedListsThrows(workersData, tasksData)
      [] name = "validateRangeValues" -> RangeValuesThrows(workersData)
      [] name = "validateReferences" -> ReferencesThrows(clientsData)
      [] name = "validateRuleConflicts" -> RuleConflictsThrows(businessRules, tasksData)
      [] name = "validateWorkerOverload" -> WorkerOverloadThrows(workersData)
      [] name = "validatePhaseSlotSaturation" -> PhaseSlotSaturationThrows(workersData, tasksData)
      [] name = "validateSkillCoverage" -> SkillCoverageThrows(workersData, tasksData)
      [] name = "validateMaxConcurrencyFeasibility" -> MaxConcurrencyThrows(workersData, tasksData)
      [] OTHER -> FALSE

CheckFindings(name) ==
    CASE name = "validateRequiredFields" -> RequiredFieldsFindings(clientsData, workersData, tasksData)
      [] name = "validateDuplicateIds" -> DuplicateIdsFindings(clientsData, workersData, tasksData)
      [] name = "validateMalformedLists" -> MalformedListsFindings(workersData, tasksData)
      [] name = "validateRangeValues" -> RangeValuesFindings(clientsData, workersData, tasksData)
      [] name = "validateJSONFields" -> JSONFieldsFindings(clientsData)
      [] name = "validateReferences" -> ReferencesFindings(clientsData, tasksData)
      [] name = "validateCircularCoRuns" -> CircularCoRunsFindings(businessRules)
      [] name = "validateRuleConflicts" -> RuleConflictsFindings(businessRules, tasksData)
      [] name = "validateWorkerOverload" -> WorkerOverloadFindings(workersData)
      [] name = "validatePhaseSlotSaturation" -> PhaseSlotSaturationFindings(workersData, tasksData)
      [] name = "validateSkillCoverage" -> SkillCoverageFindings(workersData, tasksData)
      [] name = "validateMaxConcurrencyFeasibility" -> MaxConcurrencyFindings(workersData, tasksData)

Checks == Range(Pipeline)

\* No process started
NotForked ==
    [state |-> [name \in Checks |-> "idle"],
     list |-> [name \in Checks |-> <<>>],
     shuffled |-> FALSE]

\* All twelve processes are started, after the sequential calls
Fork ==
    /\ pc = "idle"
    /\ budget = 0
    /\ \A name \in Checks : forked.state[name] = "idle"
    /\ forked' = [forked EXCEPT !.state = [name \in Checks |-> "pending"]]
    /\ UNCHANGED <<inputs, errors, origin, pc, results, budget, snapshot, panel>>

\* One process runs its check; shuffled records that it did so ahead of a
\* check declared before it
Settle(name) ==
    /\ forked.state[name] = "pending"
    /\ forked' =
          IF CheckThrows(name)
          THEN [forked EXCEPT !.state[name] = "threw"]
          ELSE [forked EXCEPT
                  !.state[name] = "done",
                  !.list[name] = Push(<<>>, CheckFindings(name)),
                  !.shuffled = @ \/ \E k \in 1..Len(Pipeline) :
                                        /\ k < IndexOf(Pipeline, name)
                                        /\ forked.state[Pipeline[k]] = "pending"]
    /\ UNCHANGED <<inputs, errors, origin, pc, results, budget, snapshot, panel>>

\* The lists merged in the order the checks are declared
Merged(lists) == Concat([k \in 1..Len(Pipeline) |-> lists[Pipeline[k]]])

MergedOrigin(lists) ==
    Concat([k \in 1..Len(Pipeline) |-> [i \in 1..Len(lists[Pipeline[k]]) |-> Pipeline[k]]])

\* Every process has settled: the merged list is the outcome, or a rejection
\* when some check threw
PromiseAll ==
    /\ \A name \in Checks : forked.state[name] \in {"done", "threw"}
    /\ results' =
          Append(results,
                 IF \E name \in Checks : forked.state[name] = "threw"
                 THEN [ok |-> FALSE, findings |-> <<>>, origin |-> <<>>]
                 ELSE [ok |-> TRUE, findings |-> Merged(forked.list),
                       origin |-> MergedOrigin(forked.list)])
    /\ forked' = [forked EXCEPT !.state = [name \in Checks |-> "joined"]]
    /\ UNCHANGED <<inputs, errors, origin, pc, budget, snapshot, panel>>

NextParallel ==
    \/ Next
    \/ Fork
    \/ \E name \in Checks : Settle(name)
    \/ PromiseAll

(***************************************************************************)
(* ValidationPanel: handleValidation, started by the effect on the data or *)
(* by the Validate button. A run is a position in `handle`: "awaiting" the *)
(* promise of runValidations, then waiting for the "timer" of its finally  *)
(* block, then "done". progressInterval holds the runs whose setInterval   *)
(* has not been cleared. The callback onValidationComplete belongs to the  *)
(* parent and is left out.                                                 *)
(***************************************************************************)
engine == <<inputs, errors, origin, pc, results, budget, snapshot, forked>>

\* runValidations(clientsData, workersData, tasksData) rejects: some check
\* throws
Rejects == \E name \in Checks : CheckThrows(name)

\* handleValidation up to its await: the two setters, setInterval, the call
handleValidation ==
    /\ Len(handle) < MaxRuns
    /\ isValidating' = TRUE
    /\ validationProgress' = 0
    /\ progressInterval' = progressInterval \cup {Len(handle) + 1}
    /\ handle' = Append(handle, "awaiting")
    /\ UNCHANGED engine

\* useEffect(..., [clientsData, workersData, tasksData])
useEffect ==
    /\ Len(clientsData) > 0 \/ Len(workersData) > 0 \/ Len(tasksData) > 0
    /\ handleValidation

\* <Button onClick={handleValidation} disabled={isValidating}>
onClick ==
    /\ ~isValidating
    /\ handleValidation

\* The interval of a run fires: setValidationProgress((prev) => Math.min(prev + 10, 90))
Tick(run) ==
    /\ run \in progressInterval
    /\ validationProgress' = IF validationProgress + 10 < 90 THEN validationProgress + 10 ELSE 90
    /\ UNCHANGED <<engine, isValidating, progressInterval, handle>>

\* The promise is fulfilled: clearInterval, progress 100, and the finally
\* block sets its timer
Fulfilled(run) ==
    /\ run \in DOMAIN handle
    /\ handle[run] = "awaiting"
    /\ ~Rejects
    /\ progressInterval' = progressInterval \ {run}
    /\ validationProgress' = 100
    /\ handle' = [handle EXCEPT ![run] = "timer"]
    /\ UNCHANGED <<engine, isValidating>>

\* The promise is rejected: the catch block logs, the finally block sets its
\* timer
Rejected(run) ==
    /\ run \in DOMAIN handle
    /\ handle[run] = "awaiting"
    /\ Rejects
    /\ handle' = [handle EXCEPT ![run] = "timer"]
    /\ UNCHANGED <<engine, isValidating, validationProgress, progressInterval>>

\* The timer of the finally block fires after 500 ms
Timeout(run) ==
    /\ run \in DOMAIN handle
    /\ handle[run] = "timer"
    /\ isValidating' = FALSE
    /\ validationProgress' = 0
    /\ handle' = [handle EXCEPT ![run] = "done"]
    /\ UNCHANGED <<engine, progressInterval>>

NextPanel ==
    \/ useEffect
    \/ onClick
    \/ \E run \in 1..MaxRuns : Tick(run)
    \/ \E run \in 1..MaxRuns : Fulfilled(run)
    \/ \E run \in 1..MaxRuns : Rejected(run)
    \/ \E run \in 1..MaxRuns : Timeout(run)

(***************************************************************************)
(* Inputs.                                                                 *)
(***************************************************************************)
ObjectPayload == [isString |-> FALSE, text |-> <<>>]
StringPayload(text) == [isString |-> TRUE, text |-> text]

Client(id, name, priority, requested, attributes) ==
    [ClientID |-> id, ClientName |-> name, PriorityLevel |-> priority,
     RequestedTaskIDs |-> requested, AttributesJSON |-> attributes]

Worker(id, name, skills, slots, load) ==
    [WorkerID |-> id, WorkerName |-> name, Skills |-> skills,
     AvailableSlots |-> slots, MaxLoadPerPhase |-> load]

Task(id, name, duration, skills, phases, concurrent) ==
    [TaskID |-> id, TaskName |-> name, Duration |-> duration, RequiredSkills |-> skills,
     PreferredPhases |-> phases, MaxConcurrent |-> concurrent]

CoRun(id, tasks, active) ==
    [id |-> id, type |-> "coRun", name |-> "co-run " \o id, active |-> active,
     parameters |-> [tasks |-> tasks]]

PhaseWindow(id, taskId, allowedPhases, active) ==
    [id |-> id, type |-> "phaseWindow", name |-> "window " \o id, active |-> active,
     parameters |-> [taskId |-> taskId, allowedPhases |-> allowedPhases]]

\* A rule of a type the engine does not read, carrying a task list all the same
OtherRule(id, type, tasks, active) ==
    [id |-> id, type |-> type, name |-> "rule " \o id, active |-> active,
     parameters |-> [tasks |-> tasks]]

\* The object r without the given fields
Without(r, fields) == [f \in (DOMAIN r) \ fields |-> r[f]]

Start(clients, workers, tasks, rules, calls) ==
    /\ clientsData = clients
    /\ workersData = workers
    /\ tasksData = tasks
    /\ businessRules = rules
    /\ snapshot = <<clients, workers, tasks, rules>>
    /\ errors = <<>>
    /\ origin = <<>>
    /\ pc = "idle"
    /\ results = <<>>
    /\ budget = calls
    /\ forked = NotForked
    /\ isValidating = FALSE
    /\ validationProgress = 0
    /\ progressInterval = {}
    /\ handle = <<>>

(***************************************************************************)
(* Spec: mixed data sets, every check with something to report, each       *)
(* validated MaxCalls times.                                               *)
(***************************************************************************)
ClientPool ==
    { Client("C1", "Acme", 3, <<"T1">>, ObjectPayload),
      Client("C2", "", 9, <<"T9", "T1">>, StringPayload(<<"[", "1", ",", "]">>)),
      Client("", "Nemo", 0, <<>>, StringPayload(<<"[", "1", "]">>)) }

WorkerPool ==
    { Worker("W1", "Ann", <<"a">>, <<1, 2>>, 2),
      Worker("W2", "", <<>>, <<NaN>>, 3),
      Worker("W3", "Cy", <<"b">>, <<0>>, 0) }

TaskPool ==
    { Task("T1", "Dig", 1, <<"a">>, <<1>>, 1),
      Task("T2", "Fill", 5, <<"z">>, <<>>, 3),
      Task("T1", "", 0, <<>>, <<NaN, 2>>, 0) }

RulePool ==
    { CoRun("R1", <<"T1", "T2">>, TRUE),
      CoRun("R2", <<"T2", "T3">>, FALSE),
      PhaseWindow("R3", "T2", <<2>>, TRUE) }

\* The rule lists of Spec: none, one rule, two co-run rules sharing a task,
\* a co-run rule with a phase window on one of its tasks
RuleLists ==
    {<<>>}
    \cup {<<r>> : r \in RulePool}
    \cup {<<CoRun("R1", <<"T1", "T2">>, TRUE), r>> : r \in RulePool \ {CoRun("R1", <<"T1", "T2">>, TRUE)}}

Init ==
    \E clients \in SeqsUpTo(ClientPool, 1), workers \in SeqsUpTo(WorkerPool, 1),
       tasks \in SeqsUpTo(TaskPool, MaxPool), rules \in RuleLists :
        Start(clients, workers, tasks, rules, MaxCalls)

Spec == Init /\ [][Next]_vars

(***************************************************************************)
(* SpecPartial: records with fields left out, up to records with no field  *)
(* at all.                                                                 *)
(***************************************************************************)
ClientFields == {"ClientID", "ClientName", "PriorityLevel", "RequestedTaskIDs", "AttributesJSON"}
WorkerFields == {"WorkerID", "WorkerName", "Skills", "AvailableSlots", "MaxLoadPerPhase"}
TaskFields == {"TaskID", "TaskName", "Duration", "RequiredSkills", "PreferredPhases",
               "MaxConcurrent"}

PartialClients ==
    LET c == Client("C1", "Acme", 3, <<"T1">>, ObjectPayload)
    IN {Without(c, a) : a \in {{}, {"RequestedTaskIDs"}, {"ClientID", "PriorityLevel"},
                               ClientFields}}

PartialWorkers ==
    LET w == Worker("W1", "Ann", <<"a">>, <<1>>, 1)
    IN {Without(w, a) : a \in {{}, {"AvailableSlots"}, {"Skills"}, {"WorkerID", "MaxLoadPerPhase"},
                               WorkerFields}}

PartialTasks ==
    LET t == Task("T1", "Dig", 1, <<"a">>, <<1>>, 1)
    IN {Without(t, a) : a \in {{}, {"PreferredPhases"}, {"RequiredSkills"},
                               {"TaskID", "Duration", "MaxConcurrent"}, TaskFields}}

InitPartial ==
    \E clients \in SeqsUpTo(PartialClients, 1), workers \in SeqsUpTo(PartialWorkers, MaxPartial),
       tasks \in SeqsUpTo(PartialTasks, 1) :
        Start(clients, workers, tasks, <<>>, 1)

SpecPartial == InitPartial /\ [][Next]_vars

(***************************************************************************)
(* SpecDup: primary keys repeated, empty and unset, in one collection at a *)
(* time, the other two holding at most one record with the key "K1".       *)
(***************************************************************************)
DupClients ==
    {Client(k, "Acme", 3, <<>>, ObjectPayload) : k \in {"", "K1", "K2"}}
    \cup {Without(Client("K1", "Acme", 3, <<>>, ObjectPayload), {"ClientID"})}

DupWorkers ==
    {Worker(k, "Ann", <<"a">>, <<1>>, 1) : k \in {"", "K1", "K2"}}
    \cup {Without(Worker("K1", "Ann", <<"a">>, <<1>>, 1), {"WorkerID"})}

DupTasks ==
    {Task(k, "Dig", 1, <<"a">>, <<1>>, 1) : k \in {"", "K1", "K2"}}
    \cup {Without(Task("K1", "Dig", 1, <<"a">>, <<1>>, 1), {"TaskID"})}

OneClient == {Client("K1", "Acme", 3, <<>>, ObjectPayload)}
OneWorker == {Worker("K1", "Ann", <<"a">>, <<1>>, 1)}
OneTask == {Task("K1", "Dig", 1, <<"a">>, <<1>>, 1)}

InitDup ==
    \/ \E clients \in SeqsUpTo(DupClients, MaxDup), workers \in SeqsUpTo(OneWorker, 1),
          tasks \in SeqsUpTo(OneTask, 1) :
           Start(clients, workers, tasks, <<>>, 1)
    \/ \E clients \in SeqsUpTo(OneClient, 1), workers \in SeqsUpTo(DupWorkers, MaxDup),
          tasks \in SeqsUpTo(OneTask, 1) :
           Start(clients, workers, tasks, <<>>, 1)
    \/ \E clients \in SeqsUpTo(OneClient, 1), workers \in SeqsUpTo(OneWorker, 1),
          tasks \in SeqsUpTo(DupTasks, MaxDup) :
           Start(clients, workers, tasks, <<>>, 1)

SpecDup == InitDup /\ [][Next]_vars

(***************************************************************************)
(* SpecRefs: one or two clients requesting task ids that exist ("T1"),     *)
(* differ in case only ("t1") or do not exist ("T9"), also repeatedly.     *)
(***************************************************************************)
RequestLists == SeqsUpTo({"T1", "t1", "T9"}, MaxReq)

RefTasks ==
    { <<>>,
      << Task("T1", "Dig", 1, <<"a">>, <<1>>, 1) >>,
      << Task("T9", "Fill", 1, <<"a">>, <<1>>, 1) >>,
      << Task("T1", "Dig", 1, <<"a">>, <<1>>, 1), Task("T9", "Fill", 1, <<"a">>, <<1>>, 1) >>,
      << Without(Task("T1", "Dig", 1, <<"a">>, <<1>>, 1), {"TaskID"}) >> }

RefClients ==
    {<<>>}
    \cup {<< Client("C1", "Acme", 3, r, ObjectPayload) >> : r \in RequestLists}
    \cup {<< Client("C1", "Acme", 3, r[1], ObjectPayload),
             Client(id, "Bolt", 3, r[2], ObjectPayload) >> :
              r \in RequestLists \X RequestLists, id \in {"C1", "C2"}}

InitRefs ==
    \E clients \in RefClients, tasks \in RefTasks :
        Start(clients, <<>>, tasks, <<>>, 1)

SpecRefs == InitRefs /\ [][Next]_vars

(***************************************************************************)
(* SpecCycle: up to MaxRules rules over the tasks T1, T2, T3: co-run rules *)
(* with overlapping, repeating, empty or missing task lists and a rule of  *)
(* another type that lists tasks too; rule ids all different or all equal. *)
(***************************************************************************)
CycleShapes ==
    {CoRun("", tasks, TRUE) :
        tasks \in {<<>>, <<"T1">>, <<"T1", "T1">>, <<"T1", "T2">>, <<"T2", "T1">>,
                   <<"T2", "T3">>, <<"T3", "T1">>}}
    \cup {[CoRun("", <<>>, TRUE) EXCEPT !.parameters = [taskId |-> "T1"]],
          OtherRule("", "loadLimit", <<"T1", "T2">>, TRUE)}

\* The rule `shape` under the id and the name that go with `id`
Named(shape, id) == [shape EXCEPT !.id = id, !.name = "rule " \o id]

InitCycle ==
    \E shapes \in SeqsUpTo(CycleShapes, MaxRules), sameId \in BOOLEAN :
        Start(<<>>, <<>>, <<>>,
              [i \in 1..Len(shapes) |->
                 Named(shapes[i], IF sameId THEN "R" ELSE "R" \o ToString(i))],
              1)

SpecCycle == InitCycle /\ [][Next]_vars

(***************************************************************************)
(* SpecWindow: one co-run rule over the tasks T1 and T2 (T2 also twice,    *)
(* also with the unknown T3, also alone), their PreferredPhases any set of *)
(* the phases 1..MaxPhase, T2 in the collection or not, and for T2 no      *)
(* phase-window rule or one with any allowed set or with none given.       *)
(***************************************************************************)
Ascending(S) ==
    CHOOSE s \in [1..Cardinality(S) -> S] : \A i, j \in 1..Cardinality(S) : i < j => s[i] < s[j]

PhaseLists == {Ascending(S) : S \in SUBSET (1..MaxPhase)}

WindowTasks ==
    {<< Task("T1", "Dig", 1, <<"a">>, p[1], 1), Task("T2", "Fill", 1, <<"a">>, p[2], 1) >> :
        p \in PhaseLists \X PhaseLists}
    \cup {<< Task("T1", "Dig", 1, <<"a">>, p, 1) >> : p \in PhaseLists}

WindowRules ==
    {<<>>}
    \cup {<< PhaseWindow("W2", "T2", a, TRUE) >> : a \in PhaseLists}
    \cup {<< [PhaseWindow("W2", "T2", <<>>, TRUE) EXCEPT !.parameters = [taskId |-> "T2"]] >>}

CoRunLists == {<<"T1", "T2">>, <<"T2">>, <<"T1", "T2", "T2">>, <<"T1", "T3", "T2">>}

InitWindow ==
    \E tasks \in WindowTasks, windows \in WindowRules, members \in CoRunLists :
        Start(<<>>, <<>>, tasks, windows \o << CoRun("R1", members, TRUE) >>, 1)

SpecWindow == InitWindow /\ [][Next]_vars

(***************************************************************************)
(* SpecSat: supply and demand over the phases 1 and 2. One or two workers  *)
(* (the first with any slot list of up to MaxSlots entries, repeats        *)
(* included, and load 2), one or two tasks (the first with any phase list  *)
(* and duration 5); among the second ones a worker with a negative load    *)
(* and a task without preferred phases.                                    *)
(***************************************************************************)
SlotLists == SeqsUpTo({1, 2}, MaxSlots)

SatWorkers ==
    {<<>>}
    \cup {<< Worker("W1", "Ann", <<"a">>, slots, 2) >> \o second :
            slots \in SlotLists,
            second \in {<<>>, << Worker("W2", "Bob", <<"a">>, <<1>>, 2) >>,
                        << Worker("W3", "Cy", <<"a">>, <<2>>, -1) >>}}

SatTasks ==
    {<<>>}
    \cup {<< Task("T1", "Dig", 5, <<"a">>, phases, 1) >> \o second :
            phases \in SlotLists,
            second \in {<<>>, << Task("T2", "Fill", 1, <<"a">>, <<>>, 1) >>,
                        << Task("T3", "Pave", 3, <<"a">>, <<1>>, 1) >>,
                        << Task("T4", "Seal", 1, <<"a">>, <<2, 1>>, 1) >>}}

InitSat ==
    \E workers \in SatWorkers, tasks \in SatTasks :
        Start(<<>>, workers, tasks, <<>>, 1)

SpecSat == InitSat /\ [][Next]_vars

(***************************************************************************)
(* SpecCrew: skills, slots and MaxConcurrent. Up to MaxCrew workers with   *)
(* skills among X and Y and a slot in phase 1 or 2; one task with any of   *)
(* the skill demands, MaxConcurrent 0..3 and a preferred-phase list, and   *)
(* possibly a second task carrying the same TaskID.                        *)
(***************************************************************************)
CrewWorkers ==
    {Worker("W", "Ann", skills, slots, 1) :
        skills \in {<<"X">>, <<"Y">>, <<"X", "Y">>}, slots \in {<<1>>, <<2>>}}

CrewTasks ==
    {<<>>}
    \cup {<< Task("T1", "Dig", 1, skills, phases, concurrent) >> \o second :
            skills \in {<<>>, <<"X">>, <<"X", "Y">>},
            phases \in {<<>>, <<1>>, <<1, 2>>},
            concurrent \in 0..3,
            second \in {<<>>, << Task("T1", "Fill", 1, <<"Y">>, <<2>>, 2) >>}}

InitCrew ==
    \E workers \in SeqsUpTo(CrewWorkers, MaxCrew), tasks \in CrewTasks :
        Start(<<>>, workers, tasks, <<>>, 1)

SpecCrew == InitCrew /\ [][Next]_vars

(***************************************************************************)
(* SpecRange: at most one client, worker and task, with numeric fields on  *)
(* both sides of their bounds and phase lists with and without a phase     *)
(* number below 1.                                                         *)
(***************************************************************************)
RangeClients ==
    {<<>>} \cup {<< Client("C1", "Acme", priority, <<>>, ObjectPayload) >> : priority \in {0, 1, 5, 6}}

RangeWorkers ==
    {<<>>}
    \cup {<< Worker("W1", "Ann", <<"a">>, slots, load) >> :
            slots \in {<<1>>, <<0>>, <<2, -1>>}, load \in {0, 1}}

RangeTasks ==
    {<<>>}
    \cup {<< Task("T1", "Dig", duration, <<"a">>, phases, concurrent) >> :
            duration \in {0, 1}, phases \in {<<>>, <<1>>, <<0, 1>>}, concurrent \in {0, 1}}

InitRange ==
    \E clients \in RangeClients, workers \in RangeWorkers, tasks \in RangeTasks :
        Start(clients, workers, tasks, <<>>, 1)

SpecRange == InitRange /\ [][Next]_vars

(***************************************************************************)
(* SpecSkill: no worker, one worker or two, holding some of the skills X   *)
(* and Y; a task requiring any list of up to MaxSkills of the skills X, Y  *)
(* and Z, repeats included, and possibly a second task.                    *)
(***************************************************************************)
SkillWorkers ==
    {<<>>, << Worker("W1", "Ann", <<"X">>, <<1>>, 1), Worker("W2", "Bob", <<"Y">>, <<1>>, 1) >>}
    \cup {<< Worker("W1", "Ann", skills, <<1>>, 1) >> : skills \in {<<>>, <<"X">>, <<"X", "Y">>}}

SkillTasks ==
    {<<>>}
    \cup {<< Task("T1", "Dig", 1, skills, <<1>>, 1) >> \o second :
            skills \in SeqsUpTo({"X", "Y", "Z"}, MaxSkills),
            second \in {<<>>, << Task("T2", "Fill", 1, <<"Z", "Y">>, <<1>>, 1) >>,
                        << Task("T1", "Pave", 1, <<"Z">>, <<1>>, 1) >>}}

InitSkill ==
    \E workers \in SkillWorkers, tasks \in SkillTasks :
        Start(<<>>, workers, tasks, <<>>, 1)

SpecSkill == InitSkill /\ [][Next]_vars

(***************************************************************************)
(* SpecParallel: one sequential call, then the same arguments handed to    *)
(* the twelve concurrent processes in every interleaving. Data on which    *)
(* every check reports, and a worker without slots on which checks throw.  *)
(***************************************************************************)
InitParallel ==
    \E workers \in {<< Worker("W2", "", <<>>, <<NaN>>, 3) >>,
                     << Without(Worker("W1", "Ann", <<"a">>, <<1>>, 2), {"AvailableSlots"}) >>},
       tasks \in {<< Task("T1", "Dig", 1, <<"a">>, <<1>>, 1), Task("T2", "Fill", 5, <<"z">>, <<>>, 3) >>,
                  << Task("T1", "Dig", 1, <<"a">>, <<1>>, 1), Task("T1", "", 0, <<>>, <<NaN, 2>>, 0) >>},
       rules \in {<<>>, << CoRun("R1", <<"T1", "T2">>, TRUE), CoRun("R2", <<"T2", "T3">>, FALSE) >>} :
        Start(<< Client("C2", "", 9, <<"T9", "T1">>, StringPayload(<<"[", "1", ",", "]">>)) >>,
              workers, tasks, rules, 1)

SpecParallel == InitParallel /\ [][NextParallel]_vars

(***************************************************************************)
(* SpecJson: clients whose AttributesJSON is an object, is left out, or is *)
(* a string: the empty string, JSON text, and text that is not JSON.       *)
(***************************************************************************)
JsonTexts == { <<>>, <<"{", "}">>, <<"[", "1", "]">>, <<"[", "1", ",", "]">>, <<"{">> }

JsonClients ==
    {Client(id, "Acme", 3, <<>>, ObjectPayload) : id \in {"C1", "C2"}}
    \cup {Without(Client(id, "Acme", 3, <<>>, ObjectPayload), {"AttributesJSON"}) : id \in {"C1", "C2"}}
    \cup {Client(id, "Acme", 3, <<>>, StringPayload(text)) : id \in {"C1", "C2"}, text \in JsonTexts}

InitJson ==
    \E clients \in SeqsUpTo(JsonClients, MaxJson) :
        Start(clients, <<>>, <<>>, <<>>, 1)

SpecJson == InitJson /\ [][Next]_vars

(***************************************************************************)
(* SpecActive: the tasks T1 and T2, both preferring phase 1, under any     *)
(* sub-list of two co-run rules sharing T2 and a phase window that moves   *)
(* T2 to phase 2, each rule switched on or off.                            *)
(***************************************************************************)
ActiveShapes ==
    << CoRun("R1", <<"T1", "T2">>, TRUE), CoRun("R2", <<"T2", "T3">>, TRUE),
       PhaseWindow("R3", "T2", <<2>>, TRUE) >>

\* The rules under the flags f
Reflag(rules, f) == [k \in 1..Len(rules) |-> [rules[k] EXCEPT !.active = f[k]]]

InitActive ==
    \E keep \in SUBSET (1..Len(ActiveShapes)) :
        LET rules == SelectSeq(ActiveShapes, LAMBDA r : \E k \in keep : ActiveShapes[k] = r)
        IN \E f \in [1..Len(rules) -> BOOLEAN] :
              Start(<<>>, <<>>,
                    << Task("T1", "Dig", 1, <<"a">>, <<1>>, 1), Task("T2", "Fill", 1, <<"a">>, <<1>>, 1) >>,
                    Reflag(rules, f), 1)

SpecActive == InitActive /\ [][Next]_vars

(***************************************************************************)
(* SpecKeyed: arguments with non-empty, unique keys and lists without      *)
(* repeats. One client; up to MaxKeyed tasks T1, T2 whose preferred phases *)
(* were given as a range ("1-2": numbers) or as a comma-separated list     *)
(* ("1,2": strings), or left empty; at most one worker with slots given    *)
(* either way.                                                             *)
(***************************************************************************)
KeyedPhases == {<<>>, <<1>>, <<1, 2>>, <<Numeral(1), Numeral(2)>>}

KeyedTasks ==
    {[i \in 1..Len(p) |->
        Task("T" \o ToString(i), "Dig", 3, <<"a">>, p[i], 1)] : p \in SeqsUpTo(KeyedPhases, MaxKeyed)}

KeyedWorkers ==
    {<<>>}
    \cup {<< Worker("W1", "Ann", <<"a">>, slots, 2) >> : slots \in {<<1>>, <<1, 2>>, <<Numeral(1), Numeral(2)>>}}

InitKeyed ==
    \E workers \in KeyedWorkers, tasks \in KeyedTasks,
       requests \in {<<>>, <<"T1", "T9">>} :
        Start(<< Client("C1", "Acme", 3, requests, ObjectPayload) >>, workers, tasks, <<>>, 1)

SpecKeyed == InitKeyed /\ [][Next]_vars

(***************************************************************************)
(* SpecPanel: the panel over no data, over complete records, and over a    *)
(* worker record without AvailableSlots; up to MaxRuns runs, overlapping   *)
(* or one after the other.                                                 *)
(***************************************************************************)
InitPanel ==
    \E workers \in {<<>>, << Worker("W1", "Ann", <<"a">>, <<1>>, 1) >>,
                     << Without(Worker("W1", "Ann", <<"a">>, <<1>>, 1), {"AvailableSlots"}) >>},
       tasks \in {<<>>, << Task("T1", "Dig", 1, <<"a">>, <<1>>, 1) >>} :
        Start(<<>>, workers, tasks, <<>>, 0)

SpecPanel == InitPanel /\ [][NextPanel]_vars

(***************************************************************************)
(* Claims                                                                  *)
(***************************************************************************)
Returned == {i \in DOMAIN results : results[i].ok}

\* The findings of result r pushed by the check `name`
PushedBy(r, name) ==
    LET idx == SelectSeq([i \in 1..Len(r.findings) |-> i], LAMBDA i : r.origin[i] = name)
    IN [k \in 1..Len(idx) |-> r.findings[idx[k]]]

\* C1: two calls of runValidations on the same clients, workers, tasks and
\* rules settle alike and return the same findings, with the same ids, in
\* the same order.
C1_SameInputsSameFindings ==
    \A i, j \in DOMAIN results :
        /\ results[i].ok = results[j].ok
        /\ results[i].findings = results[j].findings

C1_Witness ==
    /\ Len(results) = 2
    /\ results[2].ok
    /\ Len(results[2].findings) > 1

\* C3: in every state of a call, and after it, the four argument collections
\* are what the caller handed over.
C3_InputsNeverMutated ==
    <<clientsData, workersData, tasksData, businessRules>> = snapshot

\* A call has returned in which the phase-conflict check intersected the
\* PreferredPhases arrays of tasks and reported a conflict.
C3_Witness ==
    \E i \in Returned :
        /\ PushedBy(results[i], "validateRuleConflicts") # <<>>
        /\ \E t \in 1..Len(tasksData) : Len(tasksData[t].PreferredPhases) > 0

\* C4 as claimed: the returned list is the per-check lists concatenated group
\* by group: required-field, malformed-list, range, attribute-parse, then
\* duplicate-key, then unknown-reference, cycle, phase conflict, overload,
\* saturation, skill coverage, concurrency.
C4_Claimed_GroupOrder ==
    \A i \in Returned :
        results[i].findings =
            RequiredFieldsFindings(clientsData, workersData, tasksData)
            \o MalformedListsFindings(workersData, tasksData)
            \o RangeValuesFindings(clientsData, workersData, tasksData)
            \o JSONFieldsFindings(clientsData)
            \o DuplicateIdsFindings(clientsData, workersData, tasksData)
            \o ReferencesFindings(clientsData, tasksData)
            \o CircularCoRunsFindings(businessRules)
            \o RuleConflictsFindings(businessRules, tasksData)
            \o WorkerOverloadFindings(workersData)
            \o PhaseSlotSaturationFindings(workersData, tasksData)
            \o SkillCoverageFindings(workersData, tasksData)
            \o MaxConcurrencyFindings(workersData, tasksData)

\* C4, amended: the returned list is the per-check lists concatenated in the
\* order the checks are declared and awaited: required-field, duplicate-key,
\* malformed-list, range, attribute-parse, unknown-reference, cycle, phase
\* conflict, overload, saturation, skill coverage, concurrency; whatever the
\* severities. Compared when a call has settled (pc = "idle"), the only
\* states in which a result is added.
C4_DeclarationOrder ==
    pc = "idle" => \A i \in Returned :
        results[i].findings =
            RequiredFieldsFindings(clientsData, workersData, tasksData)
            \o DuplicateIdsFindings(clientsData, workersData, tasksData)
            \o MalformedListsFindings(workersData, tasksData)
            \o RangeValuesFindings(clientsData, workersData, tasksData)
            \o JSONFieldsFindings(clientsData)
            \o ReferencesFindings(clientsData, tasksData)
            \o CircularCoRunsFindings(businessRules)
            \o RuleConflictsFindings(businessRules, tasksData)
            \o WorkerOverloadFindings(workersData)
            \o PhaseSlotSaturationFindings(workersData, tasksData)
            \o SkillCoverageFindings(workersData, tasksData)
            \o MaxConcurrencyFindings(workersData, tasksData)

\* A returned list in which a duplicate-key finding stands before a range
\* finding, and findings of the rule graph and of the capacity checks follow.
C4_Witness ==
    \E i \in Returned :
        /\ PushedBy(results[i], "validateDuplicateIds") # <<>>
        /\ PushedBy(results[i], "validateRangeValues") # <<>>
        /\ PushedBy(results[i], "validateCircularCoRuns") # <<>>
        /\ PushedBy(results[i], "validateSkillCoverage") # <<>>

\* C2: whatever fields the records lack, every call returns a finding list:
\* no check throws.
C2_Claimed_NeverThrows ==
    \A i \in DOMAIN results : results[i].ok

\* The number of elements of the sequence s that satisfy P
Count(s, P(_)) == Cardinality({i \in 1..Len(s) : P(s[i])})

\* The number of records of recs whose primary key is set and equals k
Occurrences(recs, key, k) == Count(recs, LAMBDA r : key \in DOMAIN r /\ r[key] = k)

\* The primary keys that are set in recs
KeysOf(recs, key) == {recs[i][key] : i \in {j \in 1..Len(recs) : key \in DOMAIN recs[j]}}

\* In result r: one duplicate finding of the collection `entity` for every
\* non-empty key held by two or more of its records, and no other.
Collapsed(r, recs, key, entity) ==
    LET found == SelectSeq(PushedBy(r, "validateDuplicateIds"), LAMBDA e : e.entity = entity)
    IN /\ \A k \in KeysOf(recs, key) \ {""} :
            Count(found, LAMBDA e : e.entityId = k)
                = IF Occurrences(recs, key, k) >= 2 THEN 1 ELSE 0
       /\ \A i \in 1..Len(found) :
            /\ found[i].entityId # ""
            /\ Occurrences(recs, key, found[i].entityId) >= 2

\* C5: per collection, exactly one duplicate finding for every distinct
\* non-empty primary key that N >= 2 records hold, whatever N; none for a key
\* held once, none for empty or unset keys however many records have them.
C5_OneFindingPerDuplicatedKey ==
    \A i \in Returned :
        /\ Collapsed(results[i], clientsData, "ClientID", "clients")
        /\ Collapsed(results[i], workersData, "WorkerID", "workers")
        /\ Collapsed(results[i], tasksData, "TaskID", "tasks")

\* Three task records share one key, and the call has returned with a
\* duplicate finding.
C5_Witness ==
    \E i \in Returned :
        /\ Occurrences(tasksData, "TaskID", "K1") = 3
        /\ PushedBy(results[i], "validateDuplicateIds") # <<>>

\* The task ids the clients request
RequestedIds ==
    UNION {Range(clientsData[i].RequestedTaskIDs) : i \in 1..Len(clientsData)}

\* The ids of the task collection
ExistingTaskIds ==
    {tasksData[i].TaskID : i \in {j \in 1..Len(tasksData) : "TaskID" \in DOMAIN tasksData[j]}}

\* How often the clients' lists hold the id x, over all clients
TimesRequested(x) ==
    LET perClient == [i \in 1..Len(clientsData) |->
                        Count(clientsData[i].RequestedTaskIDs, LAMBDA y : y = x)]
        sum[i \in 0..Len(clientsData)] == IF i = 0 THEN 0 ELSE sum[i - 1] + perClient[i]
    IN sum[Len(clientsData)]

\* The unknown-reference findings of result r that name the id x
Referencing(r, x) ==
    Count(PushedBy(r, "validateReferences"),
          LAMBDA e : e.type = "error"
                     /\ e.message = "Requested task \"" \o x \o "\" does not exist")

\* C6 as claimed: exactly one error finding for every requested id that no
\* task has, also when it is requested several times; none for a requested
\* id that some task has.
C6_Claimed_OnePerAbsentId ==
    \A i \in Returned : \A x \in RequestedIds :
        Referencing(results[i], x) = IF x \in ExistingTaskIds THEN 0 ELSE 1

\* C6, amended: a requested id that no task has is reported by exactly one
\* error finding per occurrence in a client's RequestedTaskIDs (so as often
\* as clients request it, one client repeatedly included); a requested id
\* equal to the TaskID of some task is never reported.
C6_OnePerAbsentRequest ==
    \A i \in Returned : \A x \in RequestedIds :
        Referencing(results[i], x) = IF x \in ExistingTaskIds THEN 0 ELSE TimesRequested(x)

\* Two clients request the absent "T9", one of them also the existing "T1"
\* and the id "t1" that differs from it in case.
C6_Witness ==
    \E i \in Returned :
        /\ "T1" \in ExistingTaskIds /\ "T9" \notin ExistingTaskIds
        /\ {"T1", "t1", "T9"} \subseteq RequestedIds
        /\ TimesRequested("T9") = 2
        /\ Referencing(results[i], "T9") = 2
        /\ Referencing(results[i], "t1") = 1

\* The positions of the co-run rules, and the task list of the rule at i
CoRunAt == {i \in 1..Len(businessRules) : businessRules[i].type = "coRun"}

TasksAt(i) ==
    IF "tasks" \in DOMAIN businessRules[i].parameters
    THEN Range(businessRules[i].parameters.tasks)
    ELSE {}

\* The circular-co-run findings of result r
CycleFindings(r) == PushedBy(r, "validateCircularCoRuns")

\* k >= 2 co-run rules with pairwise different ids form a cycle: each shares
\* a task with the next and the last with the first, through at least two
\* different tasks (rules that all meet in one single task relate no two
\* tasks).
OverlapCycle ==
    \E k \in 2..Cardinality(CoRunAt) :
        \E p \in [1..k -> CoRunAt] :
            /\ \A a, b \in 1..k : a # b => businessRules[p[a]].id # businessRules[p[b]].id
            /\ \E t \in [1..k -> UNION {TasksAt(i) : i \in CoRunAt}] :
                  /\ \A j \in 1..k : t[j] \in TasksAt(p[j]) \cap TasksAt(p[(j % k) + 1])
                  /\ \E j \in 1..k : t[j] # t[(j % k) + 1]

\* C7: when the co-run rules form a cycle of overlapping task lists (rule
\* ids distinct), the returned list holds at least one circular-co-run
\* finding.
C7_CycleIsReported ==
    \A i \in Returned : OverlapCycle => CycleFindings(results[i]) # <<>>

\* Rules {T1,T2}, {T2,T3}, {T3,T1} under three ids, validated and reported
C7_Witness ==
    \E i \in Returned :
        /\ Len(businessRules) = 3
        /\ TasksAt(1) = {"T1", "T2"} /\ TasksAt(2) = {"T2", "T3"} /\ TasksAt(3) = {"T3", "T1"}
        /\ businessRules[1].id # businessRules[2].id
        /\ OverlapCycle
        /\ CycleFindings(results[i]) # <<>>

\* No task id is in the task lists of two different co-run rules
NoSharedTask ==
    \A a, b \in CoRunAt : a # b => TasksAt(a) \cap TasksAt(b) = {}

\* C8: when no task id is in the task lists of two different co-run rules,
\* no circular-co-run finding is returned, whatever else the rules hold.
C8_NoOverlapNoCycleFinding ==
    \A i \in Returned : NoSharedTask => CycleFindings(results[i]) = <<>>

\* Returned without a cycle finding: a co-run rule that repeats a task in its
\* own list, a second co-run rule on other tasks, and a rule of another type
\* listing a task of the first.
C8_Witness ==
    \E i \in Returned :
        /\ NoSharedTask
        /\ \E a \in CoRunAt :
              /\ businessRules[a].parameters = [tasks |-> <<"T1", "T1">>]
              /\ \E b \in CoRunAt : b # a /\ TasksAt(b) # {}
              /\ \E c \in 1..Len(businessRules) :
                    c \notin CoRunAt /\ "T1" \in TasksAt(c)
        /\ CycleFindings(results[i]) = <<>>

\* The first phase-window rule for the task id t, as a set of positions (at
\* most one)
WindowFor(t) ==
    LET at == {i \in 1..Len(businessRules) :
                  /\ businessRules[i].type = "phaseWindow"
                  /\ "taskId" \in DOMAIN businessRules[i].parameters
                  /\ businessRules[i].parameters.taskId = t}
    IN {i \in at : \A j \in at : i <= j}

\* The first task record with the id t, as a set of positions (at most one)
RecordFor(t) ==
    LET at == {i \in 1..Len(tasksData) :
                  "TaskID" \in DOMAIN tasksData[i] /\ tasksData[i].TaskID = t}
    IN {i \in at : \A j \in at : i <= j}

\* The resolved allowed-phase set of the member task t, as the specification
\* defines it: the explicit window if there is one, else the task's preferred
\* phases if it has any, else no restriction.
Restricted(t) ==
    \/ WindowFor(t) # {}
    \/ \E i \in RecordFor(t) : Len(tasksData[i].PreferredPhases) > 0

ResolvedPhases(t) ==
    IF WindowFor(t) # {}
    THEN LET w == businessRules[CHOOSE i \in WindowFor(t) : TRUE].parameters
         IN IF "allowedPhases" \in DOMAIN w THEN Range(w.allowedPhases) ELSE {}
    ELSE Range(tasksData[CHOOSE i \in RecordFor(t) : TRUE].PreferredPhases)

\* The group of the co-run rule at position i has no common phase
EmptyIntersection(i) ==
    LET members == {t \in TasksAt(i) : Restricted(t)}
    IN /\ members # {}
       /\ ~ \E ph \in UNION {ResolvedPhases(t) : t \in members} :
              \A t \in members : ph \in ResolvedPhases(t)

\* The phase-conflict findings of result r for the rule with the id `id`
ConflictsFor(r, id) ==
    Count(PushedBy(r, "validateRuleConflicts"),
          LAMBDA e : e.id = "conflicting-phases-" \o id)

\* C9: for every co-run rule, exactly one phase-conflict finding when the
\* intersection of its member tasks' resolved allowed-phase sets is empty,
\* and none when it is not.
C9_Claimed_ConflictIffEmptyIntersection ==
    \A i \in Returned : \A k \in CoRunAt :
        ConflictsFor(results[i], businessRules[k].id)
            = IF EmptyIntersection(k) THEN 1 ELSE 0

\* The sum of amount(r) * (occurrences of ph in list(r)) over the records
Total(recs, list(_), amount(_), ph) ==
    LET sum[i \in 0..Len(recs)] ==
            IF i = 0 THEN 0
            ELSE sum[i - 1] + amount(recs[i]) * Count(list(recs[i]), LAMBDA x : x = ph)
    IN sum[Len(recs)]

\* available(p): MaxLoadPerPhase per occurrence of p in a worker's slots
AvailableAt(ph) ==
    Total(workersData, LAMBDA w : w.AvailableSlots, LAMBDA w : w.MaxLoadPerPhase, ph)

\* required(p) as claimed: Duration per occurrence of p in a task's
\* preferred phases
RequiredAt(ph) ==
    Total(tasksData, LAMBDA t : t.PreferredPhases, LAMBDA t : t.Duration, ph)

\* required(p) with a task without preferred phases counted on phase 1
DemandList(t) == IF t.PreferredPhases = <<>> THEN <<1>> ELSE t.PreferredPhases

RequiredWithDefaultAt(ph) ==
    Total(tasksData, DemandList, LAMBDA t : t.Duration, ph)

\* The phases some task puts demand on
DemandedPhases == UNION {Range(DemandList(tasksData[i])) : i \in 1..Len(tasksData)}

\* All phases in the data, and phase 1
PhasesInData ==
    {1} \cup UNION {Range(workersData[i].AvailableSlots) : i \in 1..Len(workersData)}
        \cup UNION {Range(tasksData[i].PreferredPhases) : i \in 1..Len(tasksData)}

\* The saturation warnings of result r for phase ph, and those among them
\* that report the totals req and av
WarningsAt(r, ph) ==
    Count(PushedBy(r, "validatePhaseSlotSaturation"),
          LAMBDA e : e.type = "warning" /\ e.id = "phase-saturation-" \o ToString(ph))

ReportsAt(r, ph, req, av) ==
    Count(PushedBy(r, "validatePhaseSlotSaturation"),
          LAMBDA e : /\ e.id = "phase-saturation-" \o ToString(ph)
                     /\ e.entityId = "Phase " \o ToString(ph)
                     /\ e.message = "Phase " \o ToString(ph) \o " is oversaturated: requires "
                                    \o ToString(req) \o " slots but only "
                                    \o ToString(av) \o " available")

\* C10 as claimed: with required(p) summed over the preferred phases alone,
\* exactly one warning, reporting p, required(p) and available(p), for every
\* phase with required(p) > available(p), and none for any other phase.
C10_Claimed_Saturation ==
    \A i \in Returned : \A ph \in PhasesInData :
        IF RequiredAt(ph) > AvailableAt(ph)
        THEN /\ WarningsAt(results[i], ph) = 1
             /\ ReportsAt(results[i], ph, RequiredAt(ph), AvailableAt(ph)) = 1
        ELSE WarningsAt(results[i], ph) = 0

\* C10, amended: with required(p) counting a task without preferred phases
\* as listing phase 1, exactly one warning, reporting p, required(p) and
\* available(p), for every phase p that some task puts demand on and that has
\* required(p) > available(p), and none for any other phase.
C10_SaturationArithmetic ==
    \A i \in Returned :
        /\ \A ph \in PhasesInData :
              IF ph \in DemandedPhases /\ RequiredWithDefaultAt(ph) > AvailableAt(ph)
              THEN /\ WarningsAt(results[i], ph) = 1
                   /\ ReportsAt(results[i], ph, RequiredWithDefaultAt(ph), AvailableAt(ph)) = 1
              ELSE WarningsAt(results[i], ph) = 0
        /\ Len(PushedBy(results[i], "validatePhaseSlotSaturation"))
              = Cardinality({ph \in DemandedPhases :
                                RequiredWithDefaultAt(ph) > AvailableAt(ph)})

\* Two workers with load 2 and slot 1, one task of duration 5 preferring
\* phase 1: the warning reports required 5, available 4.
C10_Witness ==
    \E i \in Returned :
        /\ Len(workersData) = 2 /\ Len(tasksData) = 1
        /\ \A w \in 1..2 : workersData[w].AvailableSlots = <<1>>
                           /\ workersData[w].MaxLoadPerPhase = 2
        /\ tasksData[1].Duration = 5 /\ tasksData[1].PreferredPhases = <<1>>
        /\ ReportsAt(results[i], 1, 5, 4) = 1

\* The workers whose Skills contain every skill the task requires
SkilledFor(t) ==
    {w \in 1..Len(workersData) :
        Range(tasksData[t].RequiredSkills) \subseteq Range(workersData[w].Skills)}

\* The skill-shortfall warnings of result r for the task id, and those among
\* them that cite max and the count q
ShortfallsFor(r, id) ==
    Count(PushedBy(r, "validateMaxConcurrencyFeasibility"),
          LAMBDA e : e.type = "warning" /\ e.id = "task-" \o id \o "-infeasible-concurrency")

ShortfallsCiting(r, id, max, q) ==
    Count(PushedBy(r, "validateMaxConcurrencyFeasibility"),
          LAMBDA e : /\ e.type = "warning"
                     /\ e.id = "task-" \o id \o "-infeasible-concurrency"
                     /\ e.entityId = id
                     /\ e.message = "Max concurrent (" \o ToString(max)
                                    \o ") exceeds qualified workers (" \o ToString(q) \o ")")

\* The tasks with the id, and those that also have MaxConcurrent max and q
\* skilled workers
TasksNamed(id) == {t \in 1..Len(tasksData) : tasksData[t].TaskID = id}

TasksShort(id, max, q) ==
    {t \in TasksNamed(id) : /\ tasksData[t].MaxConcurrent = max
                            /\ Cardinality(SkilledFor(t)) = q
                            /\ max > q}

\* C11: every task whose MaxConcurrent exceeds the number of workers holding
\* all its required skills gets exactly one skill-shortfall warning citing
\* MaxConcurrent and that number, and a task whose MaxConcurrent does not
\* exceed it gets none (tasks sharing a TaskID counted record by record).
C11_ShortfallIffMoreThanQualified ==
    \A i \in Returned : \A t \in 1..Len(tasksData) :
        LET id == tasksData[t].TaskID
            max == tasksData[t].MaxConcurrent
            q == Cardinality(SkilledFor(t))
        IN /\ ShortfallsCiting(results[i], id, max, q) = Cardinality(TasksShort(id, max, q))
           /\ ShortfallsFor(results[i], id)
                 = Cardinality({u \in TasksNamed(id) :
                                   tasksData[u].MaxConcurrent > Cardinality(SkilledFor(u))})

\* A task requiring X with MaxConcurrent 3, two workers that have X: one
\* warning citing 3 and 2.
C11_Witness ==
    \E i \in Returned :
        /\ Len(tasksData) = 1 /\ Len(workersData) = 2
        /\ tasksData[1].RequiredSkills = <<"X">> /\ tasksData[1].MaxConcurrent = 3
        /\ Cardinality(SkilledFor(1)) = 2
        /\ ShortfallsCiting(results[i], "T1", 3, 2) = 1
        /\ ShortfallsFor(results[i], "T1") = 1

\* The skilled workers with at least one slot in the task's preferred phases
PhaseReady(t) ==
    {w \in SkilledFor(t) :
        Range(workersData[w].AvailableSlots) \cap Range(tasksData[t].PreferredPhases) # {}}

\* The phase-shortfall warnings of result r for the task id
PhaseShortfallsFor(r, id) ==
    Count(PushedBy(r, "validateMaxConcurrencyFeasibility"),
          LAMBDA e : e.type = "warning" /\ e.id = "task-" \o id \o "-infeasible-phase-concurrency")

\* C18 as claimed: every task whose MaxConcurrent exceeds the number of
\* skilled workers with a slot in its preferred-phase list gets one
\* phase-shortfall warning, distinct from the skill-shortfall warning, and no
\* other task gets one.
C18_Claimed_PhaseShortfall ==
    \A i \in Returned : \A t \in 1..Len(tasksData) :
        PhaseShortfallsFor(results[i], tasksData[t].TaskID)
            = Cardinality({u \in TasksNamed(tasksData[t].TaskID) :
                              tasksData[u].MaxConcurrent > Cardinality(PhaseReady(u))})

\* C18, amended: every task with a non-empty preferred-phase list whose
\* MaxConcurrent exceeds the number of skilled workers with a slot in that
\* list gets one phase-shortfall warning, whether or not it also gets the
\* skill-shortfall warning; a task without preferred phases gets none.
C18_PhaseShortfallWhenPhasesPreferred ==
    \A i \in Returned : \A t \in 1..Len(tasksData) :
        /\ PhaseShortfallsFor(results[i], tasksData[t].TaskID)
              = Cardinality({u \in TasksNamed(tasksData[t].TaskID) :
                                /\ tasksData[u].PreferredPhases # <<>>
                                /\ tasksData[u].MaxConcurrent > Cardinality(PhaseReady(u))})
        /\ \A e \in Range(PushedBy(results[i], "validateMaxConcurrencyFeasibility")) :
              e.id = "task-" \o tasksData[t].TaskID \o "-infeasible-phase-concurrency"
                 => \E u \in TasksNamed(tasksData[t].TaskID) :
                       e.message = "Max concurrent (" \o ToString(tasksData[u].MaxConcurrent)
                                   \o ") exceeds available qualified workers ("
                                   \o ToString(Cardinality(PhaseReady(u)))
                                   \o ") in preferred phases"

\* A task with enough skilled workers but too few of them in its preferred
\* phase: the phase warning alone; and a returned call with a task that has
\* both warnings.
C18_Witness ==
    \E i \in Returned :
        /\ Len(tasksData) = 1
        /\ tasksData[1].PreferredPhases = <<1>>
        /\ tasksData[1].MaxConcurrent = 2
        /\ Cardinality(SkilledFor(1)) = 2
        /\ Cardinality(PhaseReady(1)) = 1
        /\ PhaseShortfallsFor(results[i], "T1") = 1
        /\ ShortfallsFor(results[i], "T1") = 0

\* The four capacity / feasibility checks
CapacityChecks ==
    {"validateWorkerOverload", "validatePhaseSlotSaturation",
     "validateSkillCoverage", "validateMaxConcurrencyFeasibility"}

\* The severity the check `name` is to use
SeverityOf(name) == IF name \in CapacityChecks THEN "warning" ELSE "error"

\* C12: every finding pushed by one of the four capacity/feasibility checks
\* is a warning and every finding pushed by any other check is an error, in
\* the list being built and in every returned list.
C12_SeverityPartition ==
    /\ \A k \in 1..Len(errors) : errors[k].type = SeverityOf(origin[k])
    /\ \A i \in Returned : \A k \in 1..Len(results[i].findings) :
          results[i].findings[k].type = SeverityOf(results[i].origin[k])

\* A returned list with findings of all four capacity checks and of the
\* required-field, range, cycle and phase-conflict checks.
C12_Witness ==
    \E i \in Returned :
        /\ \A name \in CapacityChecks : PushedBy(results[i], name) # <<>>
        /\ \A name \in {"validateRequiredFields", "validateRangeValues",
                        "validateCircularCoRuns", "validateRuleConflicts"} :
              PushedBy(results[i], name) # <<>>

\* The input collection of the kind a finding gives as its entity, and the
\* primary key of that kind
CollectionOf(kind) ==
    IF kind = "clients" THEN clientsData
    ELSE IF kind = "workers" THEN workersData ELSE tasksData

PrimaryKeyOf(kind) ==
    IF kind = "clients" THEN "ClientID"
    ELSE IF kind = "workers" THEN "WorkerID" ELSE "TaskID"

\* The finding's entity / entityId pair names exactly one record of the
\* collection of that kind
NamesOneRecord(e) == Occurrences(CollectionOf(e.entity), PrimaryKeyOf(e.entity), e.entityId) = 1

\* The finding's id is that of a rule-graph finding of exactly one rule
NamesOneRule(e) ==
    Cardinality({k \in 1..Len(businessRules) :
                    e.id \in {"circular-corun-" \o businessRules[k].id,
                              "conflicting-phases-" \o businessRules[k].id}}) = 1

\* C13: every finding of a returned list names exactly one record of the
\* input collection of its kind, or names one rule.
C13_Claimed_Traceable ==
    \A i \in Returned : \A k \in 1..Len(results[i].findings) :
        NamesOneRecord(results[i].findings[k]) \/ NamesOneRule(results[i].findings[k])

\* The tasks hasCycle entered, in order, while the co-run rule at index k of
\* the rule set was scanned
Traversal(k) ==
    LET coRunRules == RulesOfType(businessRules, "coRun")
    IN FirstCyclic(ParamTasks(businessRules[k]), 1, businessRules[k], coRunRules, FreshSets).st.entered

\* C14: while a rule is scanned hasCycle enters no task twice, and only tasks
\* listed by co-run rules, so the traversal is bounded by the number of tasks
\* and validateCircularCoRuns returns: its step hands over to the next check.
C14_CycleScanTerminates ==
    /\ [](\A k \in CoRunAt :
              /\ Cardinality(Range(Traversal(k))) = Len(Traversal(k))
              /\ Range(Traversal(k)) \subseteq UNION {TasksAt(i) : i \in CoRunAt})
    /\ [][pc = "validateCircularCoRuns" => pc' = "validateRuleConflicts"]_vars

\* A call has returned on three co-run rules forming a cycle, in which the
\* scan of the first rule entered T1, T2 and T3 and reported the cycle.
C14_Witness ==
    \E i \in Returned :
        /\ Len(businessRules) = 3
        /\ TasksAt(1) = {"T1", "T2"} /\ TasksAt(2) = {"T2", "T3"} /\ TasksAt(3) = {"T3", "T1"}
        /\ Range(Traversal(1)) = {"T1", "T2", "T3"}
        /\ Len(CycleFindings(results[i])) > 1

\* The circular-co-run findings of result r that carry the rule id
CycleFindingsOf(r, id) == Count(CycleFindings(r), LAMBDA e : e.id = "circular-corun-" \o id)

\* C15: a returned list holds at most one circular-co-run finding for every
\* co-run rule (as many at most as there are co-run rules with the id), and
\* every such finding is for one task of a rule with that id.
C15_OneCycleFindingPerRule ==
    \A i \in Returned :
        /\ Len(CycleFindings(results[i])) <= Cardinality(CoRunAt)
        /\ \A k \in CoRunAt :
              CycleFindingsOf(results[i], businessRules[k].id)
                 <= Cardinality({j \in CoRunAt : businessRules[j].id = businessRules[k].id})
        /\ \A n \in 1..Len(CycleFindings(results[i])) :
              \E k \in CoRunAt :
                 /\ CycleFindings(results[i])[n].id = "circular-corun-" \o businessRules[k].id
                 /\ CycleFindings(results[i])[n].entityId \in TasksAt(k)

\* Two rules over the same two tasks: both tasks of the first rule lie on a
\* cycle, and the returned list has one finding for it.
C15_Witness ==
    \E i \in Returned :
        /\ Len(businessRules) = 2 /\ CoRunAt = {1, 2}
        /\ businessRules[1].parameters.tasks = <<"T1", "T2">>
        /\ businessRules[2].parameters.tasks = <<"T2", "T1">>
        /\ businessRules[1].id # businessRules[2].id
        /\ CycleFindingsOf(results[i], businessRules[1].id) = 1
        /\ CycleFindings(results[i])[1].entityId = "T1"

\* C16: a co-run rule with a member that has neither a phase window nor a
\* preferred phase, and whose other members share a common phase (or has no
\* other member), gets no phase-conflict finding.
C16_Claimed_UnrestrictedDoesNotNarrow ==
    \A i \in Returned : \A k \in CoRunAt :
        (/\ \E t \in TasksAt(k) : ~Restricted(t)
         /\ ~EmptyIntersection(k))
        => ConflictsFor(results[i], businessRules[k].id) = 0

\* The task collection with the preferred phases of every task that has a
\* phase-window rule replaced by the list p
WithPreference(p) ==
    [i \in 1..Len(tasksData) |->
        IF WindowFor(tasksData[i].TaskID) # {}
        THEN [tasksData[i] EXCEPT !.PreferredPhases = p]
        ELSE tasksData[i]]

\* C17: the phase-conflict findings are the same whatever the preferred
\* phases of a task with a phase-window rule are; and for a co-run rule over
\* T1, with preferred phases, and T2, with a phase-window rule, there is one
\* finding when T1's preferred phases and the rule's allowedPhases have no
\* phase in common and none when they have one.
C17_WindowOverridesPreference ==
    \A i \in Returned :
        /\ \A p \in PhaseLists :
              RuleConflictsFindings(businessRules, WithPreference(p))
                 = PushedBy(results[i], "validateRuleConflicts")
        /\ \A k \in CoRunAt :
              (/\ TasksAt(k) = {"T1", "T2"}
               /\ WindowFor("T2") # {} /\ WindowFor("T1") = {}
               /\ \E r \in RecordFor("T1") : tasksData[r].PreferredPhases # <<>>)
              => ConflictsFor(results[i], businessRules[k].id)
                    = IF ResolvedPhases("T1") \cap ResolvedPhases("T2") = {} THEN 1 ELSE 0

\* T1 prefers 1 and 2, T2 prefers 1 and is restricted to 3 by its phase
\* window: the window makes the conflict the preferences would not.
C17_Witness ==
    \E i \in Returned :
        /\ Len(tasksData) = 2
        /\ tasksData[1].PreferredPhases = <<1, 2>> /\ tasksData[2].PreferredPhases = <<1>>
        /\ WindowFor("T2") # {} /\ ResolvedPhases("T2") = {3}
        /\ \E k \in CoRunAt : /\ businessRules[k].parameters.tasks = <<"T1", "T2">>
                              /\ ConflictsFor(results[i], businessRules[k].id) = 1

\* The range errors of result r on the record id of the kind, for the field
RangeErrorsOn(r, kind, id, field) ==
    Count(PushedBy(r, "validateRangeValues"),
          LAMBDA e : /\ e.type = "error" /\ e.entity = kind /\ e.entityId = id
                     /\ "field" \in DOMAIN e /\ e.field = field)

\* One error when out is true, none when it is not
OneIff(n, out) == n = IF out THEN 1 ELSE 0

\* Some element of the phase list is below 1
PhaseBelowOne(list) == \E k \in 1..Len(list) : list[k] < 1

\* C19: one range error for every client with PriorityLevel outside 1..5,
\* every task with Duration < 1, every task with MaxConcurrent < 1, every
\* worker with MaxLoadPerPhase < 1 and every worker or task with a phase
\* number < 1 in its phase list; none for a value within its bounds.
C19_Claimed_RangeBounds ==
    \A i \in Returned :
        /\ \A c \in 1..Len(clientsData) :
              OneIff(RangeErrorsOn(results[i], "clients", clientsData[c].ClientID, "PriorityLevel"),
                     clientsData[c].PriorityLevel < 1 \/ clientsData[c].PriorityLevel > 5)
        /\ \A t \in 1..Len(tasksData) :
              /\ OneIff(RangeErrorsOn(results[i], "tasks", tasksData[t].TaskID, "Duration"),
                        tasksData[t].Duration < 1)
              /\ OneIff(RangeErrorsOn(results[i], "tasks", tasksData[t].TaskID, "MaxConcurrent"),
                        tasksData[t].MaxConcurrent < 1)
              /\ OneIff(RangeErrorsOn(results[i], "tasks", tasksData[t].TaskID, "PreferredPhases"),
                        PhaseBelowOne(tasksData[t].PreferredPhases))
        /\ \A w \in 1..Len(workersData) :
              /\ OneIff(RangeErrorsOn(results[i], "workers", workersData[w].WorkerID, "MaxLoadPerPhase"),
                        workersData[w].MaxLoadPerPhase < 1)
              /\ OneIff(RangeErrorsOn(results[i], "workers", workersData[w].WorkerID, "AvailableSlots"),
                        PhaseBelowOne(workersData[w].AvailableSlots))

\* The required fields of each kind of record
RequiredOf(kind) ==
    IF kind = "clients" THEN {"ClientID", "ClientName", "PriorityLevel"}
    ELSE IF kind = "workers"
         THEN {"WorkerID", "WorkerName", "Skills", "AvailableSlots", "MaxLoadPerPhase"}
         ELSE {"TaskID", "TaskName", "Duration", "RequiredSkills"}

\* The field is absent from the record, or an empty string or list; a number,
\* 0 included, is present
AbsentOrEmpty(rec, field) ==
    \/ field \notin DOMAIN rec
    \/ field \in StrFields /\ rec[field] = ""
    \/ field \in ListFields /\ rec[field] = <<>>

\* The entityId findings carry for the record: its primary key, "Unknown"
\* when that is unset
ShownId(rec, kind) ==
    IF AbsentOrEmpty(rec, PrimaryKeyOf(kind)) THEN "Unknown" ELSE rec[PrimaryKeyOf(kind)]

\* The missing-field errors of result r under the kind, entityId and field
MissingErrorsOn(r, kind, id, field) ==
    Count(PushedBy(r, "validateRequiredFields"),
          LAMBDA e : /\ e.type = "error" /\ e.entity = kind /\ e.entityId = id
                     /\ e.field = field)

\* C20: for every record and every required field of its kind, one
\* missing-field error when the field is absent or empty and none when it is
\* present, a numeric field holding 0 being present (records that show the
\* same id counted together).
C20_Claimed_RequiredPresence ==
    \A i \in Returned : \A kind \in {"clients", "workers", "tasks"} :
        \A n \in 1..Len(CollectionOf(kind)) : \A field \in RequiredOf(kind) :
            MissingErrorsOn(results[i], kind, ShownId(CollectionOf(kind)[n], kind), field)
               = Cardinality({m \in 1..Len(CollectionOf(kind)) :
                    /\ ShownId(CollectionOf(kind)[m], kind) = ShownId(CollectionOf(kind)[n], kind)
                    /\ AbsentOrEmpty(CollectionOf(kind)[m], field)})

\* U: the union of all workers' Skills
SkillUnion == UNION {Range(workersData[w].Skills) : w \in 1..Len(workersData)}

\* The skill-coverage warnings of result r for the task id and the skill
CoverageWarnings(r, id, skill) ==
    Count(PushedBy(r, "validateSkillCoverage"),
          LAMBDA e : /\ e.type = "warning" /\ e.entityId = id
                     /\ e.id = "task-" \o id \o "-missing-skill-" \o skill
                     /\ e.message = "No worker has the required skill \"" \o skill \o "\"")

\* All skills named by a worker or a task
SkillsInData ==
    SkillUnion \cup UNION {Range(tasksData[t].RequiredSkills) : t \in 1..Len(tasksData)}

\* The sum of n(t) over the tasks with the id
SumOverTasks(id, n(_)) ==
    LET sum[t \in 0..Len(tasksData)] ==
            IF t = 0 THEN 0
            ELSE sum[t - 1] + (IF tasksData[t].TaskID = id THEN n(t) ELSE 0)
    IN sum[Len(tasksData)]

\* C21 as claimed: one warning for every pair of a task and a skill it
\* requires that no worker has, whatever the number of times the task lists
\* the skill, and none for a skill some worker has.
C21_Claimed_OnePerMissingSkill ==
    \A i \in Returned : \A t \in 1..Len(tasksData) : \A skill \in SkillsInData :
        CoverageWarnings(results[i], tasksData[t].TaskID, skill)
           = IF skill \in SkillUnion THEN 0
             ELSE SumOverTasks(tasksData[t].TaskID,
                               LAMBDA u : IF skill \in Range(tasksData[u].RequiredSkills)
                                          THEN 1 ELSE 0)

\* C21, amended: one warning for every entry of a task's RequiredSkills list
\* whose skill no worker has, so a skill the task lists twice is warned of
\* twice, and none for a skill some worker has.
C21_OnePerMissingSkillEntry ==
    \A i \in Returned : \A t \in 1..Len(tasksData) : \A skill \in SkillsInData :
        CoverageWarnings(results[i], tasksData[t].TaskID, skill)
           = IF skill \in SkillUnion THEN 0
             ELSE SumOverTasks(tasksData[t].TaskID,
                               LAMBDA u : Count(tasksData[u].RequiredSkills,
                                                LAMBDA x : x = skill))

\* One worker holding X, one task requiring Y and Z: the task misses two
\* distinct skills and gets two warnings, one for each.
C21_Witness ==
    \E i \in Returned :
        /\ Len(tasksData) = 1 /\ tasksData[1].RequiredSkills = <<"Y", "Z">>
        /\ SkillUnion = {"X"}
        /\ CoverageWarnings(results[i], "T1", "Y") = 1
        /\ CoverageWarnings(results[i], "T1", "Z") = 1
        /\ Len(PushedBy(results[i], "validateSkillCoverage")) = 2

\* What the task at index t adds to the demand of phase ph: with no preferred
\* phase its Duration to phase 1 alone, else its Duration for each listing of
\* ph in its PreferredPhases
Contribution(t, ph) ==
    IF tasksData[t].PreferredPhases = <<>>
    THEN IF ph = 1 THEN tasksData[t].Duration ELSE 0
    ELSE tasksData[t].Duration * Count(tasksData[t].PreferredPhases, LAMBDA x : x = ph)

DemandAt(ph) ==
    LET sum[t \in 0..Len(tasksData)] ==
            IF t = 0 THEN 0 ELSE sum[t - 1] + Contribution(t, ph)
    IN sum[Len(tasksData)]

\* C22: the demand the saturation check computes for a phase is the sum of
\* the tasks' contributions, a task without preferred phases contributing its
\* whole Duration to phase 1 and nothing elsewhere, a task with preferred
\* phases its Duration to each listed phase and nothing to phase 1 unless it
\* lists phase 1; and a saturation warning reports that demand.
C22_DefaultPhaseOne ==
    /\ \A ph \in PhasesInData \cup {0, 3} :
          /\ GetOrZero(PhaseRequirements(tasksData), ph) = DemandAt(ph)
          /\ MapHas(PhaseRequirements(tasksData), ph)
                <=> \E t \in 1..Len(tasksData) :
                       IF tasksData[t].PreferredPhases = <<>> THEN ph = 1
                       ELSE ph \in Range(tasksData[t].PreferredPhases)
    /\ \A i \in Returned : \A ph \in PhasesInData :
          /\ WarningsAt(results[i], ph) = ReportsAt(results[i], ph, DemandAt(ph), AvailableAt(ph))
          /\ DemandAt(ph) <= AvailableAt(ph) => WarningsAt(results[i], ph) = 0

\* No worker, a task of duration 5 preferring phase 2 and a task of duration
\* 1 without preferred phases: phase 1 is reported with demand 1, phase 2
\* with demand 5.
C22_Witness ==
    \E i \in Returned :
        /\ workersData = <<>> /\ Len(tasksData) = 2
        /\ tasksData[1].PreferredPhases = <<2>> /\ tasksData[2].PreferredPhases = <<>>
        /\ ReportsAt(results[i], 1, 1, 0) = 1
        /\ ReportsAt(results[i], 2, 5, 0) = 1

\* The overload warnings of result r for the worker id
OverloadWarnings(r, id) ==
    Count(PushedBy(r, "validateWorkerOverload"),
          LAMBDA e : /\ e.type = "warning" /\ e.entity = "workers" /\ e.entityId = id
                     /\ e.id = "worker-" \o id \o "-overloaded")

\* C23: every worker record with fewer AvailableSlots than its
\* MaxLoadPerPhase gets exactly one overload warning, and a worker with at
\* least as many slots as its MaxLoadPerPhase gets none (workers sharing a
\* WorkerID counted record by record).
C23_OverloadIffFewerSlots ==
    \A i \in Returned :
        /\ \A w \in 1..Len(workersData) :
              OverloadWarnings(results[i], workersData[w].WorkerID)
                 = Cardinality({v \in 1..Len(workersData) :
                      /\ workersData[v].WorkerID = workersData[w].WorkerID
                      /\ Len(workersData[v].AvailableSlots) < workersData[v].MaxLoadPerPhase})
        /\ Len(PushedBy(results[i], "validateWorkerOverload"))
              = Cardinality({v \in 1..Len(workersData) :
                   Len(workersData[v].AvailableSlots) < workersData[v].MaxLoadPerPhase})

\* Two workers of load 2: the one with two slots gets no warning, the one
\* with one slot gets one.
C23_Witness ==
    \E i \in Returned :
        /\ Len(workersData) = 2
        /\ Len(workersData[1].AvailableSlots) = 2 /\ workersData[1].MaxLoadPerPhase = 2
        /\ Len(workersData[2].AvailableSlots) = 1 /\ workersData[2].MaxLoadPerPhase = 2
        /\ OverloadWarnings(results[i], workersData[1].WorkerID) = 0
        /\ OverloadWarnings(results[i], workersData[2].WorkerID) = 1

\* C24: the list merged in declaration order from the twelve concurrent
\* processes, whatever the order in which they ran, is the list the
\* sequential call returned on the same arguments (and when the call
\* rejected, so does the parallel run).
C24_ParallelMergeEqualsSequential ==
    \A i, j \in DOMAIN results :
        /\ results[i].ok = results[j].ok
        /\ results[i].findings = results[j].findings
        /\ results[i].origin = results[j].origin

\* The sequential call and the parallel run have both delivered a list with
\* findings of at least six checks, and some process ran ahead of a check
\* declared before it.
C24_Witness ==
    /\ Len(results) = 2
    /\ results[2].ok
    /\ forked.shuffled
    /\ \A name \in Checks : forked.state[name] = "joined"
    /\ Cardinality(Range(results[2].origin)) >= 6

\* The clients with key id whose payload is a string that JSON.parse rejects
UnparsableClients(id) ==
    Count(clientsData,
          LAMBDA c : /\ c.ClientID = id
                     /\ Has(c, "AttributesJSON")
                     /\ c.AttributesJSON.isString
                     /\ JSONParseThrows(c.AttributesJSON.text))

\* The broken-JSON errors of result r under the client key id
BrokenJSONErrors(r, id) ==
    Count(PushedBy(r, "validateJSONFields"),
          LAMBDA e : /\ e.type = "error" /\ e.entity = "clients" /\ e.entityId = id
                     /\ e.field = "AttributesJSON")

\* C25 as claimed: no call is rejected, and a returned list holds exactly
\* one broken-JSON error for every client whose payload is a string that
\* fails to parse, and none for a client whose payload parses, is an object
\* or is left out.
C25_Claimed_ParseFailureIsFinding ==
    \A i \in DOMAIN results :
        /\ results[i].ok
        /\ \A id \in {"C1", "C2"} :
              BrokenJSONErrors(results[i], id) = UnparsableClients(id)

\* What a call on the arguments, with `rules` for the rules, delivers
OutcomeWith(rules) ==
    IF RuleConflictsThrows(rules, tasksData)
    THEN [ok |-> FALSE, findings |-> <<>>]
    ELSE [ok |-> TRUE,
          findings |-> RequiredFieldsFindings(clientsData, workersData, tasksData)
                       \o DuplicateIdsFindings(clientsData, workersData, tasksData)
                       \o MalformedListsFindings(workersData, tasksData)
                       \o RangeValuesFindings(clientsData, workersData, tasksData)
                       \o JSONFieldsFindings(clientsData)
                       \o ReferencesFindings(clientsData, tasksData)
                       \o CircularCoRunsFindings(rules)
                       \o RuleConflictsFindings(rules, tasksData)
                       \o WorkerOverloadFindings(workersData)
                       \o PhaseSlotSaturationFindings(workersData, tasksData)
                       \o SkillCoverageFindings(workersData, tasksData)
                       \o MaxConcurrencyFindings(workersData, tasksData)]

\* C26: what a call delivered is what a call delivers on the same arguments
\* with the active flags of the rules set in any other way.
C26_ActiveFlagAgnostic ==
    \A i \in DOMAIN results :
        \A f \in [1..Len(businessRules) -> BOOLEAN] :
            LET other == OutcomeWith(Reflag(businessRules, f))
            IN /\ results[i].ok = other.ok
               /\ results[i].findings = other.findings

\* A call returned cycle findings and a phase conflict although every one of
\* its three rules is switched off.
C26_Witness ==
    \E i \in Returned :
        /\ Len(businessRules) = 3
        /\ \A k \in 1..Len(businessRules) : ~businessRules[k].active
        /\ Len(PushedBy(results[i], "validateCircularCoRuns")) = 2
        /\ Len(PushedBy(results[i], "validateRuleConflicts")) = 1

\* The co-run rule at k has a task that another co-run rule (another id)
\* lists together with at least one different task
SharesBeyond(k) ==
    \E t \in TasksAt(k), j \in CoRunAt :
        /\ businessRules[j].id # businessRules[k].id
        /\ t \in TasksAt(j)
        /\ TasksAt(j) \ {t} # {}

\* C27: a returned list holds a circular-co-run finding for a co-run rule
\* exactly when one of the rule's tasks is also listed, together with some
\* other task, by a co-run rule with another id: under every rule id, as many
\* findings as there are such rules with the id.
C27_CycleFindingCharacterised ==
    \A i \in Returned :
        \A k \in CoRunAt :
            CycleFindingsOf(results[i], businessRules[k].id)
               = Cardinality({j \in CoRunAt : /\ businessRules[j].id = businessRules[k].id
                                               /\ SharesBeyond(j)})

\* The chain A = {T1, T2}, B = {T2, T3} and nothing else: a call returned a
\* finding for each of the two rules.
C27_Witness ==
    \E i \in Returned :
        /\ Len(businessRules) = 2
        /\ CoRunAt = {1, 2}
        /\ businessRules[1].parameters.tasks = <<"T1", "T2">>
        /\ businessRules[2].parameters.tasks = <<"T2", "T3">>
        /\ CycleFindingsOf(results[i], businessRules[1].id) = 1
        /\ CycleFindingsOf(results[i], businessRules[2].id) = 1

\* C29: a task with a non-empty PreferredPhases list that gets the
\* skill-shortfall warning gets the phase-shortfall warning too. For a task
\* that has its TaskID to itself this is read off the two warnings; for
\* tasks sharing a TaskID, under that id there are at least as many
\* phase-shortfall warnings as there are tasks with preferred phases and
\* fewer skilled workers than MaxConcurrent (the tasks that get the
\* skill-shortfall warning).
C29_SkillShortfallImpliesPhaseShortfall ==
    \A i \in Returned : \A t \in 1..Len(tasksData) :
        LET id == tasksData[t].TaskID
        IN /\ (/\ TasksNamed(id) = {t}
               /\ tasksData[t].PreferredPhases # <<>>
               /\ ShortfallsFor(results[i], id) > 0)
                  => PhaseShortfallsFor(results[i], id) > 0
           /\ PhaseShortfallsFor(results[i], id)
                 >= Cardinality({u \in TasksNamed(id) :
                                    /\ tasksData[u].PreferredPhases # <<>>
                                    /\ tasksData[u].MaxConcurrent > Cardinality(SkilledFor(u))})

\* One task preferring phase 1 with MaxConcurrent 2, one skilled worker, who
\* has no slot in phase 1: the call returned both warnings for the task.
C29_Witness ==
    \E i \in Returned :
        /\ Len(tasksData) = 1
        /\ tasksData[1].PreferredPhases = <<1>>
        /\ tasksData[1].MaxConcurrent = 2
        /\ Cardinality(SkilledFor(1)) = 1
        /\ PhaseReady(1) = {}
        /\ ShortfallsFor(results[i], "T1") = 1
        /\ PhaseShortfallsFor(results[i], "T1") = 1

\* Every record of recs has a non-empty key and no two records share one
UniqueKeys(recs, key) ==
    /\ \A i \in 1..Len(recs) : key \in DOMAIN recs[i] /\ recs[i][key] # ""
    /\ \A i, j \in 1..Len(recs) : i # j => recs[i][key] # recs[j][key]

\* No record of recs repeats an element in its list `field`
NoRepeats(recs, field) ==
    \A i \in 1..Len(recs) :
        field \in DOMAIN recs[i]
           => Cardinality(Range(recs[i][field])) = Len(recs[i][field])

\* The preconditions of C28 on the arguments
WellKeyed ==
    /\ UniqueKeys(clientsData, "ClientID")
    /\ UniqueKeys(workersData, "WorkerID")
    /\ UniqueKeys(tasksData, "TaskID")
    /\ \A i, j \in 1..Len(businessRules) : i # j => businessRules[i].id # businessRules[j].id
    /\ NoRepeats(clientsData, "RequestedTaskIDs")
    /\ NoRepeats(tasksData, "RequiredSkills")

\* C28 as claimed: when the primary keys are non-empty and unique in each
\* collection, the rule ids are unique and no RequestedTaskIDs or
\* RequiredSkills list repeats an element, no two findings of a returned
\* list carry the same id.
C28_Claimed_FindingIdsDistinct ==
    WellKeyed =>
        \A i \in Returned :
            \A m, n \in 1..Len(results[i].findings) :
                m # n => results[i].findings[m].id # results[i].findings[n].id

\* C30 as claimed, in the state it promises: once every run that was started
\* has finished, no progress interval is left set and isValidating is false.
C30_Claimed_RunsEndClean ==
    (handle # <<>> /\ \A run \in DOMAIN handle : handle[run] = "done")
       => (progressInterval = {} /\ ~isValidating)

====
